---- MODULE Spec2Model ----
(***************************************************************************)
(* Model of the Opal custom tools: the statistics tool                     *)
(* (metric-variance-analyzer, src/src/tools/todays-date.ts), the duration  *)
(* estimator (src/src/tools/experiment-duration-estimator.ts), the flag    *)
(* name validator (src/src/tools/flag-naming-validator.ts), the database   *)
(* query tool (sqlite_query), the HTTP tool (api_call), the flag creator   *)
(* (src/src/tools/flag-creator.ts) and the experiment overlap checker      *)
(* (experiment-overlap-checker, src/src/tools/todays-date.ts).             *)
(*                                                                         *)
(* Every tool is a stateless request handler.  A behaviour of the model is *)
(* one request: Init draws the request from a bounded set of inputs, the   *)
(* tool's action computes the response, and a follow-up action lets the    *)
(* caller issue the next, related request (the previous request and its    *)
(* response are kept in prev so that two calls can be compared).  The      *)
(* query tool answers through callbacks of its database connection, which  *)
(* are further actions; the HTTP tool and the flag creator wait for the    *)
(* answer to the request they have sent, which is a further action.        *)
(*                                                                         *)
(* JavaScript numbers are modelled as exact rationals extended with NaN    *)
(* and +/-Infinity; a rational stands for the double nearest to it.        *)
(* Math.sqrt is exact on squares of rationals and truncated to 1/SqrtPrec  *)
(* otherwise.  Where the binary rounding of a division or a sum decides    *)
(* the result (the mean of the report, the quotients behind estimatedDays) *)
(* the computation is carried out on IEEE 754 doubles, bit by bit.         *)
(* The sign of zero is not modelled: every zero divisor that can arise in  *)
(* the modelled code is +0.  Strings that the code inspects are sequences  *)
(* of characters.                                                          *)
(***************************************************************************)
EXTENDS Integers, Sequences, FiniteSets, TLC

VARIABLES
    pc,     \* "call": request received; "waiting": waiting for an answer;
            \* "done": response produced
    args,   \* the request: [tool |-> name, ...parameters]
    ret,    \* the response: [ok |-> TRUE, ...] or [ok |-> FALSE, error |-> ..]
    prev,   \* the previous request and response of this caller, or NoCall
    db,     \* the database connection a request has opened, or NoDb
    sent    \* the HTTP requests sent so far, in order

vars == <<pc, args, ret, prev, db, sent>>

NoCall == [tool |-> "none"]
NoRet == [ok |-> FALSE, error |-> "pending"]
NoDb == [handle |-> "none", queue |-> <<>>, executed |-> <<>>]

(***************************************************************************)
(* JavaScript numbers                                                      *)
(***************************************************************************)
Abs(x) == IF x < 0 THEN -x ELSE x

Sgn(x) == IF x > 0 THEN 1 ELSE IF x < 0 THEN -1 ELSE 0

RECURSIVE Gcd(_, _)
Gcd(a, b) == IF b = 0 THEN a ELSE Gcd(b, a % b)

NaN == [k |-> "nan", n |-> 0, d |-> 1]

Infinity == [k |-> "inf", n |-> 1, d |-> 1]

SignedInfinity(s) == [k |-> "inf", n |-> s, d |-> 1]

\* the number n/d, d # 0, in lowest terms with a positive denominator
Frac(n, d) ==
    LET g == Gcd(Abs(n), Abs(d))
    IN  [k |-> "fin", n |-> (Sgn(d) * n) \div g, d |-> Abs(d) \div g]

Num(i) == [k |-> "fin", n |-> i, d |-> 1]

IsNaN(a) == a.k = "nan"

IsFinite(a) == a.k = "fin"

Neg(a) == [a EXCEPT !.n = -a.n]

Add(a, b) ==
    IF IsNaN(a) \/ IsNaN(b) THEN NaN
    ELSE IF a.k = "inf" THEN (IF b.k = "inf" /\ b.n # a.n THEN NaN ELSE a)
    ELSE IF b.k = "inf" THEN b
    ELSE Frac(a.n * b.d + b.n * a.d, a.d * b.d)

Sub(a, b) == Add(a, Neg(b))

Mul(a, b) ==
    IF IsNaN(a) \/ IsNaN(b) THEN NaN
    ELSE IF a.k = "inf" \/ b.k = "inf"
         THEN (IF Sgn(a.n) * Sgn(b.n) = 0 THEN NaN
               ELSE SignedInfinity(Sgn(a.n) * Sgn(b.n)))
    ELSE Frac(a.n * b.n, a.d * b.d)

Div(a, b) ==
    IF IsNaN(a) \/ IsNaN(b) THEN NaN
    ELSE IF a.k = "inf"
         THEN (IF b.k = "inf" THEN NaN
               ELSE SignedInfinity(IF b.n < 0 THEN -a.n ELSE a.n))
    ELSE IF b.k = "inf" THEN Num(0)
    ELSE IF b.n = 0
         THEN (IF a.n = 0 THEN NaN ELSE SignedInfinity(Sgn(a.n)))
    ELSE Frac(a.n * b.d, a.d * b.n)

\* a < b; every comparison with NaN is false
Lt(a, b) ==
    IF IsNaN(a) \/ IsNaN(b) THEN FALSE
    ELSE IF a.k = "inf" THEN a.n < 0 /\ ~(b.k = "inf" /\ b.n < 0)
    ELSE IF b.k = "inf" THEN b.n > 0
    ELSE a.n * b.d < b.n * a.d

Le(a, b) == ~IsNaN(a) /\ ~IsNaN(b) /\ ~Lt(b, a)

Gt(a, b) == Lt(b, a)

Ge(a, b) == Le(b, a)

MathMax(a, b) ==
    IF IsNaN(a) \/ IsNaN(b) THEN NaN ELSE IF Lt(a, b) THEN b ELSE a

MathMin(a, b) ==
    IF IsNaN(a) \/ IsNaN(b) THEN NaN ELSE IF Lt(b, a) THEN b ELSE a

MathFloor(a) == IF IsFinite(a) THEN Num(a.n \div a.d) ELSE a

MathCeil(a) == IF IsFinite(a) THEN Num(-((-a.n) \div a.d)) ELSE a

\* Math.round: the nearest integer, halves rounded towards +Infinity
MathRound(a) ==
    IF IsFinite(a) THEN Num((2 * a.n + a.d) \div (2 * a.d)) ELSE a

RECURSIVE Isqrt(_)
Isqrt(n) ==
    IF n < 2 THEN n
    ELSE LET s == 2 * Isqrt(n \div 4)
         IN  IF (s + 1) * (s + 1) <= n THEN s + 1 ELSE s

SqrtPrec == 1000

MathSqrt(a) ==
    IF IsNaN(a) THEN NaN
    ELSE IF a.n < 0 THEN NaN
    ELSE IF a.k = "inf" THEN a
    ELSE LET rn == Isqrt(a.n)
             rd == Isqrt(a.d)
         IN  IF rn * rn = a.n /\ rd * rd = a.d
             THEN Frac(rn, rd)
             ELSE LET scale == SqrtPrec * SqrtPrec
                      \* floor(a * scale), the integer part taken first
                      scaled == (a.n \div a.d) * scale + ((a.n % a.d) * scale) \div a.d
                  IN  Frac(Isqrt(scaled), SqrtPrec)

RECURSIVE Pow10(_)
Pow10(e) == IF e = 0 THEN 1 ELSE 10 * Pow10(e - 1)

(***************************************************************************)
(* metric-variance-analyzer: helper functions                              *)
(***************************************************************************)
\* s[i] with JavaScript's zero-based index; a missing element is undefined,
\* which arithmetic turns into NaN
At(s, i) == IF 0 <= i /\ i < Len(s) THEN s[i + 1] ELSE NaN

RECURSIVE Insert(_, _)
Insert(x, s) ==
    IF s = <<>> THEN <<x>>
    ELSE IF Le(x, Head(s)) THEN <<x>> \o s
    ELSE <<Head(s)>> \o Insert(x, Tail(s))

\* [...values].sort((a, b) => a - b)
RECURSIVE SortAsc(_)
SortAsc(s) == IF s = <<>> THEN <<>> ELSE Insert(Head(s), SortAsc(Tail(s)))

\* values.reduce((sum, val) => sum + val, 0)
RECURSIVE Sum(_)
Sum(s) == IF s = <<>> THEN Num(0) ELSE Add(Sum(SubSeq(s, 1, Len(s) - 1)), s[Len(s)])

\* s.slice(from, to)
Slice(s, from, to) == SubSeq(s, from + 1, to)

roundTo(value, decimals) ==
    LET multiplier == Num(Pow10(decimals))
    IN  Div(MathRound(Mul(value, multiplier)), multiplier)

calculateMean(values) == Div(Sum(values), Num(Len(values)))

calculateMedian(values) ==
    LET sorted == SortAsc(values)
        mid == Len(sorted) \div 2
    IN  IF Len(sorted) % 2 = 0
        THEN Div(Add(At(sorted, mid - 1), At(sorted, mid)), Num(2))
        ELSE At(sorted, mid)

calculateVariance(values, mean) ==
    LET squaredDiffs ==
            [i \in 1..Len(values) |->
                Mul(Sub(values[i], mean), Sub(values[i], mean))]
    IN  Div(Sum(squaredDiffs), Num(Len(values)))

\* calculateQuartiles with the median kept in both halves when the length is odd
calculateQuartiles_IncludeMedian(values) ==
    LET sorted == SortAsc(values)
        half == Len(sorted) \div 2
        q2 == calculateMedian(sorted)
        lowerHalf == Slice(sorted, 0, half + (Len(sorted) % 2))
        upperHalf == Slice(sorted, half, Len(sorted))
        q1 == calculateMedian(lowerHalf)
        q3 == calculateMedian(upperHalf)
    IN  [q1 |-> q1, q2 |-> q2, q3 |-> q3, iqr |-> Sub(q3, q1)]

calculateQuartiles(values) ==
    LET sorted == SortAsc(values)
        half == Len(sorted) \div 2
        q2 == calculateMedian(sorted)
        lowerHalf == Slice(sorted, 0, half)
        upperHalf == IF Len(sorted) % 2 = 0
                     THEN Slice(sorted, half, Len(sorted))
                     ELSE Slice(sorted, half + 1, Len(sorted))
        q1 == calculateMedian(lowerHalf)
        q3 == calculateMedian(upperHalf)
    IN  [q1 |-> q1, q2 |-> q2, q3 |-> q3, iqr |-> Sub(q3, q1)]

\* detectOutliers with the fences counted as outliers (<= and >= for < and >)
detectOutliers_InclusiveFences(values, quartiles) ==
    LET lowerBound == Sub(quartiles.q1, Mul(Frac(3, 2), quartiles.iqr))
        upperBound == Add(quartiles.q3, Mul(Frac(3, 2), quartiles.iqr))
        positions == [i \in 1..Len(values) |-> i - 1]
        IsOutlier(idx) ==
            Le(values[idx + 1], lowerBound) \/ Ge(values[idx + 1], upperBound)
        indices == SelectSeq(positions, IsOutlier)
        outlierValues == [k \in 1..Len(indices) |-> values[indices[k] + 1]]
    IN  [count |-> Len(outlierValues),
         percentage |-> Mul(Div(Num(Len(outlierValues)), Num(Len(values))), Num(100)),
         values |-> outlierValues,
         indices |-> indices]

\* detectOutliers reporting one-based positions (push(idx + 1))
detectOutliers_OneBased(values, quartiles) ==
    LET lowerBound == Sub(quartiles.q1, Mul(Frac(3, 2), quartiles.iqr))
        upperBound == Add(quartiles.q3, Mul(Frac(3, 2), quartiles.iqr))
        positions == [i \in 1..Len(values) |-> i - 1]
        IsOutlier(idx) ==
            Lt(values[idx + 1], lowerBound) \/ Gt(values[idx + 1], upperBound)
        indices == SelectSeq(positions, IsOutlier)
        outlierValues == [k \in 1..Len(indices) |-> values[indices[k] + 1]]
    IN  [count |-> Len(outlierValues),
         percentage |-> Mul(Div(Num(Len(outlierValues)), Num(Len(values))), Num(100)),
         values |-> outlierValues,
         indices |-> [k \in 1..Len(indices) |-> indices[k] + 1]]

detectOutliers(values, quartiles) ==
    LET lowerBound == Sub(quartiles.q1, Mul(Frac(3, 2), quartiles.iqr))
        upperBound == Add(quartiles.q3, Mul(Frac(3, 2), quartiles.iqr))
        positions == [i \in 1..Len(values) |-> i - 1]
        IsOutlier(idx) ==
            Lt(values[idx + 1], lowerBound) \/ Gt(values[idx + 1], upperBound)
        indices == SelectSeq(positions, IsOutlier)
        outlierValues == [k \in 1..Len(indices) |-> values[indices[k] + 1]]
    IN  [count |-> Len(outlierValues),
         percentage |-> Mul(Div(Num(Len(outlierValues)), Num(Len(values))), Num(100)),
         values |-> outlierValues,
         indices |-> indices]

\* calculateStabilityScore with the base penalty 15 of the 20-30 band left out
calculateStabilityScore_NoBasePenalty(params) ==
    LET cv == params.coefficientOfVariation
        afterCv ==
            IF Le(cv, Num(10)) THEN Sub(Num(100), Num(0))
            ELSE IF Le(cv, Num(20))
                 THEN Sub(Num(100), Mul(Sub(cv, Num(10)), Frac(3, 2)))
            ELSE IF Le(cv, Num(30))
                 THEN Sub(Num(100), Mul(Sub(cv, Num(20)), Num(2)))
            ELSE IF Le(cv, Num(50))
                 THEN Sub(Num(100), Add(Num(35), Mul(Sub(cv, Num(30)), Frac(3, 2))))
            ELSE Sub(Num(100), Num(65))
        afterOutliers == Sub(afterCv, Mul(params.outlierPercentage, Frac(4, 5)))
        afterSize ==
            IF Lt(params.sampleSize, Num(30))
            THEN Sub(afterOutliers, Mul(Sub(Num(30), params.sampleSize), Frac(1, 2)))
            ELSE afterOutliers
    IN  MathMax(Num(0), MathMin(Num(100), afterSize))

\* calculateStabilityScore with the sample-size term added instead of subtracted
calculateStabilityScore_SizeBonus(params) ==
    LET cv == params.coefficientOfVariation
        afterCv ==
            IF Le(cv, Num(10)) THEN Sub(Num(100), Num(0))
            ELSE IF Le(cv, Num(20))
                 THEN Sub(Num(100), Mul(Sub(cv, Num(10)), Frac(3, 2)))
            ELSE IF Le(cv, Num(30))
                 THEN Sub(Num(100), Add(Num(15), Mul(Sub(cv, Num(20)), Num(2))))
            ELSE IF Le(cv, Num(50))
                 THEN Sub(Num(100), Add(Num(35), Mul(Sub(cv, Num(30)), Frac(3, 2))))
            ELSE Sub(Num(100), Num(65))
        afterOutliers == Sub(afterCv, Mul(params.outlierPercentage, Frac(4, 5)))
        afterSize ==
            IF Lt(params.sampleSize, Num(30))
            THEN Add(afterOutliers, Mul(Sub(Num(30), params.sampleSize), Frac(1, 2)))
            ELSE afterOutliers
    IN  MathMax(Num(0), MathMin(Num(100), afterSize))

\* calculateStabilityScore returning the score without the clamp to [0, 100]
calculateStabilityScore_Unclamped(params) ==
    LET cv == params.coefficientOfVariation
        afterCv ==
            IF Le(cv, Num(10)) THEN Sub(Num(100), Num(0))
            ELSE IF Le(cv, Num(20))
                 THEN Sub(Num(100), Mul(Sub(cv, Num(10)), Frac(3, 2)))
            ELSE IF Le(cv, Num(30))
                 THEN Sub(Num(100), Add(Num(15), Mul(Sub(cv, Num(20)), Num(2))))
            ELSE IF Le(cv, Num(50))
                 THEN Sub(Num(100), Add(Num(35), Mul(Sub(cv, Num(30)), Frac(3, 2))))
            ELSE Sub(Num(100), Num(65))
        afterOutliers == Sub(afterCv, Mul(params.outlierPercentage, Frac(4, 5)))
        afterSize ==
            IF Lt(params.sampleSize, Num(30))
            THEN Sub(afterOutliers, Mul(Sub(Num(30), params.sampleSize), Frac(1, 2)))
            ELSE afterOutliers
    IN  afterSize

calculateStabilityScore(params) ==
    LET cv == params.coefficientOfVariation
        afterCv ==
            IF Le(cv, Num(10)) THEN Sub(Num(100), Num(0))
            ELSE IF Le(cv, Num(20))
                 THEN Sub(Num(100), Mul(Sub(cv, Num(10)), Frac(3, 2)))
            ELSE IF Le(cv, Num(30))
                 THEN Sub(Num(100), Add(Num(15), Mul(Sub(cv, Num(20)), Num(2))))
            ELSE IF Le(cv, Num(50))
                 THEN Sub(Num(100), Add(Num(35), Mul(Sub(cv, Num(30)), Frac(3, 2))))
            ELSE Sub(Num(100), Num(65))
        afterOutliers == Sub(afterCv, Mul(params.outlierPercentage, Frac(4, 5)))
        afterSize ==
            IF Lt(params.sampleSize, Num(30))
            THEN Sub(afterOutliers, Mul(Sub(Num(30), params.sampleSize), Frac(1, 2)))
            ELSE afterOutliers
    IN  MathMax(Num(0), MathMin(Num(100), afterSize))

getStabilityRating(score) ==
    IF Ge(score, Num(80)) THEN "Excellent"
    ELSE IF Ge(score, Num(60)) THEN "Good"
    ELSE IF Ge(score, Num(40)) THEN "Fair"
    ELSE IF Ge(score, Num(20)) THEN "Poor"
    ELSE "Very Poor"

MathAbs(a) == IF IsNaN(a) THEN NaN ELSE [a EXCEPT !.n = Abs(a.n)]

Undefined == [k |-> "undefined", n |-> 0, d |-> 1]

\* The recommendations are texts; the model keeps which ones are pushed, in
\* order, and leaves out the numbers formatted into them.
generateRecommendations(params) ==
    LET cv == params.coefficientOfVariation
        cvPart ==
            IF Le(cv, Num(10)) THEN <<"Excellent stability">>
            ELSE IF Le(cv, Num(20)) THEN <<"Good stability">>
            ELSE IF Le(cv, Num(30)) THEN <<"Fair stability">>
            ELSE IF Le(cv, Num(50)) THEN <<"Poor stability">>
            ELSE <<"Very poor stability">>
        outlierPart ==
            IF Gt(params.outlierPercentage, Num(10)) THEN <<"High outlier rate">>
            ELSE IF Gt(params.outlierPercentage, Num(5))
                 THEN <<"Moderate outliers detected">>
            ELSE <<>>
        sizePart ==
            IF Lt(params.sampleSize, Num(30)) THEN <<"Small sample size">>
            ELSE IF Ge(params.sampleSize, Num(100)) THEN <<"Large sample size">>
            ELSE <<>>
        percentDiff ==
            Mul(Div(Sub(params.mean, params.expectedMean), params.expectedMean),
                Num(100))
        meanPart ==
            IF params.expectedMean # Undefined /\ Gt(MathAbs(percentDiff), Num(10))
            THEN <<"Mean differs from expected">>
            ELSE <<>>
        readyPart ==
            IF Ge(params.stabilityScore, Num(60))
            THEN <<"Metric is stable enough for A/B testing">>
            ELSE <<"Increase planned sample size">>
    IN  cvPart \o outlierPart \o sizePart \o meanPart \o readyPart

estimateMinimumSampleSize(params) ==
    LET baseSize == Num(1000)
        cvPenalty == MathMax(Num(1), Div(params.coefficientOfVariation, Num(30)))
    IN  MathCeil(Mul(baseSize, cvPenalty))

(***************************************************************************)
(* metric-variance-analyzer: the tool                                      *)
(*                                                                         *)
(* The metricValues parameter is a text.  JSON.parse either throws         *)
(* ([json |-> "malformed"]) or yields a JSON value: an array of elements   *)
(* ([t |-> "array", elems |-> ..]) or something else.  An element is a     *)
(* number ([t |-> "number", v |-> i]) or a value of another JSON type.     *)
(***************************************************************************)
JArray(elems) == [json |-> "parsed", t |-> "array", elems |-> elems]

JOther(t) == [json |-> "parsed", t |-> t, elems |-> <<>>]

JMalformed == [json |-> "malformed", t |-> "none", elems |-> <<>>]

JNumber(i) == [t |-> "number", v |-> i]

JString == [t |-> "string", v |-> 0]

\* the types of JSON values that are no numbers
OtherJsonTypes == {"string", "null", "boolean", "array", "object"}

JElement(t) == [t |-> t, v |-> 0]

MixedLen == 3

InvalidMetricValues(message) ==
    [ok |-> FALSE, error |-> "Invalid metricValues format", message |-> message]

\* the checks of lines 207-215 with only the first element examined
ParseError_FirstElementOnly(metricValues) ==
    IF metricValues.json = "malformed" THEN "SyntaxError"
    ELSE IF metricValues.t # "array" THEN "metricValues must be a JSON array"
    ELSE IF Len(metricValues.elems) = 0 THEN "metricValues array cannot be empty"
    ELSE IF metricValues.elems[1].t # "number"
         THEN "All metric values must be valid numbers"
    ELSE "none"

\* lines 203-220: the message thrown inside the try block, or "none"
ParseError(metricValues) ==
    IF metricValues.json = "malformed" THEN "SyntaxError"
    ELSE IF metricValues.t # "array" THEN "metricValues must be a JSON array"
    ELSE IF Len(metricValues.elems) = 0 THEN "metricValues array cannot be empty"
    ELSE IF \E i \in 1..Len(metricValues.elems) : metricValues.elems[i].t # "number"
         THEN "All metric values must be valid numbers"
    ELSE "none"

\* lines 222-302: the report computed from the parsed values
Analysis(values, metricName, expectedMean) ==
    LET n == Len(values)
        mean == calculateMean(values)
        median == calculateMedian(values)
        variance == calculateVariance(values, mean)
        standardDeviation == MathSqrt(variance)
        coefficientOfVariation == Mul(Div(standardDeviation, mean), Num(100))
        min == CHOOSE x \in {values[i] : i \in 1..n} :
                   \A i \in 1..n : Le(x, values[i])
        max == CHOOSE x \in {values[i] : i \in 1..n} :
                   \A i \in 1..n : Ge(x, values[i])
        range == Sub(max, min)
        quartiles == calculateQuartiles(values)
        outliers == detectOutliers(values, quartiles)
        stabilityScore ==
            calculateStabilityScore(
                [coefficientOfVariation |-> coefficientOfVariation,
                 outlierPercentage |-> outliers.percentage,
                 sampleSize |-> Num(n)])
        stabilityRating == getStabilityRating(stabilityScore)
        isStableForTesting == Ge(stabilityScore, Num(60))
        recommendations ==
            generateRecommendations(
                [coefficientOfVariation |-> coefficientOfVariation,
                 outlierPercentage |-> outliers.percentage,
                 sampleSize |-> Num(n),
                 stabilityScore |-> stabilityScore,
                 mean |-> mean,
                 expectedMean |-> expectedMean,
                 standardDeviation |-> standardDeviation])
        minimumSampleSizeForTest ==
            estimateMinimumSampleSize(
                [coefficientOfVariation |-> coefficientOfVariation,
                 mean |-> mean,
                 standardDeviation |-> standardDeviation])
    IN  [ok |-> TRUE,
         metricName |-> metricName,
         sampleSize |-> n,
         statistics |->
            [mean |-> roundTo(mean, 4),
             median |-> roundTo(median, 4),
             standardDeviation |-> roundTo(standardDeviation, 4),
             variance |-> roundTo(variance, 4),
             coefficientOfVariation |-> roundTo(coefficientOfVariation, 2),
             min |-> roundTo(min, 4),
             max |-> roundTo(max, 4),
             range |-> roundTo(range, 4),
             quartiles |->
                [q1 |-> roundTo(quartiles.q1, 4),
                 q2 |-> roundTo(quartiles.q2, 4),
                 q3 |-> roundTo(quartiles.q3, 4),
                 iqr |-> roundTo(quartiles.iqr, 4)]],
         stability |->
            [score |-> roundTo(stabilityScore, 1),
             rating |-> stabilityRating,
             isStableForTesting |-> isStableForTesting],
         outliers |->
            [count |-> outliers.count,
             percentage |-> roundTo(outliers.percentage, 2),
             values |-> [k \in 1..Len(outliers.values) |->
                            roundTo(outliers.values[k], 4)],
             indices |-> outliers.indices],
         recommendations |-> recommendations,
         minimumSampleSizeForTest |-> minimumSampleSizeForTest]

\* the numbers of a validated array
NumberValues(metricValues) ==
    [i \in 1..Len(metricValues.elems) |-> Num(metricValues.elems[i].v)]

metricVarianceAnalyzer(parameters) ==
    IF ParseError(parameters.metricValues) # "none"
    THEN InvalidMetricValues(ParseError(parameters.metricValues))
    ELSE Analysis(NumberValues(parameters.metricValues),
                  parameters.metricName, parameters.expectedMean)

(***************************************************************************)
(* Requests to metric-variance-analyzer                                    *)
(***************************************************************************)
MaxLen == 7

WideLen == 2

SmallValues == {0, 1, 3}

WideValues == {-1, 1, 46, 54, 61, 91}

\* the arrays of at most maxLen numbers drawn from S, the empty one included
NumberArrays(S, maxLen) ==
    UNION {[1..len -> {JNumber(v) : v \in S}] : len \in 0..maxLen}

\* the example of the tool's parameter description
DocumentedValues == <<10, 12, 11, 13, 10>>

\* arrays with an element that is no number, at each position
MixedArrays ==
    LET elements == {JNumber(1), JNumber(3)} \cup {JElement(t) : t \in OtherJsonTypes}
        arrays == UNION {[1..n -> elements] : n \in 1..MixedLen}
    IN  {a \in arrays : \E i \in 1..Len(a) : a[i].t # "number"}

MetricValuesInputs ==
    {JMalformed} \cup {JOther(t) : t \in OtherJsonTypes \ {"array"}} \cup {JOther("number")}
        \cup {JArray([i \in 1..Len(DocumentedValues) |-> JNumber(DocumentedValues[i])])}
        \cup {JArray(a) : a \in NumberArrays(SmallValues, MaxLen)}
        \cup {JArray(a) : a \in NumberArrays(WideValues, WideLen)}
        \cup {JArray(<<JString>>), JArray(<<JNumber(1), JString>>)}
        \cup {JArray(a) : a \in MixedArrays}

AnalyzerRequests ==
    {[tool |-> "metric-variance-analyzer",
      metricValues |-> mv,
      metricName |-> "Unnamed Metric",
      expectedMean |-> Undefined] : mv \in MetricValuesInputs}
        \cup
    {[tool |-> "metric-variance-analyzer",
      metricValues |-> JArray(a),
      metricName |-> "Conversion",
      expectedMean |-> Num(50)] : a \in NumberArrays(WideValues, WideLen)}

Init ==
    /\ pc = "call"
    /\ args \in AnalyzerRequests
    /\ ret = NoRet
    /\ prev = NoCall
    /\ db = NoDb
    /\ sent = <<>>

\* the tool handles the request
MetricVarianceAnalyzer ==
    /\ pc = "call"
    /\ args.tool = "metric-variance-analyzer"
    /\ ret' = metricVarianceAnalyzer(args)
    /\ pc' = "done"
    /\ UNCHANGED <<args, prev, db, sent>>

\* the input values that the report does not list as outliers
NonOutliers(elems, indices) ==
    LET positions == [i \in 1..Len(elems) |-> i - 1]
        Kept(idx) == \A k \in 1..Len(indices) : indices[k] # idx
        kept == SelectSeq(positions, Kept)
    IN  [k \in 1..Len(kept) |-> elems[kept[k] + 1]]

\* the caller runs the tool again on the values that were not outliers
ResubmitNonOutliers ==
    /\ pc = "done"
    /\ args.tool = "metric-variance-analyzer"
    /\ ret.ok
    /\ prev = NoCall
    /\ prev' = [tool |-> args.tool, args |-> args, ret |-> ret]
    /\ args' = [args EXCEPT !.metricValues =
                    JArray(NonOutliers(args.metricValues.elems, ret.outliers.indices))]
    /\ ret' = NoRet
    /\ pc' = "call"
    /\ UNCHANGED <<db, sent>>

Next == MetricVarianceAnalyzer \/ ResubmitNonOutliers

Spec == Init /\ [][Next]_vars

(***************************************************************************)
(* Properties of metric-variance-analyzer (specification Spec)             *)
(***************************************************************************)
\* the request was answered with a report
Reported == pc = "done" /\ args.tool = "metric-variance-analyzer" /\ ret.ok

\* the numbers the report was computed from
InputValues == NumberValues(args.metricValues)

\* C1: for every non-empty array of finite numbers, arrays of length 1, 2
\* and 3 included, calculateQuartiles returns q1 <= q2 <= q3 and
\* iqr = q3 - q1 >= 0.
C1_QuartilesOrdered ==
    Reported =>
        LET q == calculateQuartiles(InputValues)
        IN  /\ Le(q.q1, q.q2)
            /\ Le(q.q2, q.q3)
            /\ q.iqr = Sub(q.q3, q.q1)
            /\ Ge(q.iqr, Num(0))

\* C2: when the observations have mean zero the call fails with an explicit
\* error; no report is returned whose coefficientOfVariation, stability
\* score or minimumSampleSizeForTest comes from a NaN or infinite
\* coefficient of variation.
C2_ZeroMeanIsAnError ==
    (/\ pc = "done"
     /\ args.tool = "metric-variance-analyzer"
     /\ ParseError(args.metricValues) = "none"
     /\ calculateMean(InputValues) = Num(0))
        => (/\ ~ret.ok
            /\ ret.error # "pending")

\* C8: in every report, stability.rating is the bucket of the reported
\* stability.score and stability.isStableForTesting holds exactly when the
\* reported score is >= 60.
C8_RatingMatchesReportedScore ==
    Reported =>
        /\ ret.stability.rating =
              (IF Ge(ret.stability.score, Num(80)) THEN "Excellent"
               ELSE IF Ge(ret.stability.score, Num(60)) THEN "Good"
               ELSE IF Ge(ret.stability.score, Num(40)) THEN "Fair"
               ELSE IF Ge(ret.stability.score, Num(20)) THEN "Poor"
               ELSE "Very Poor")
        /\ ret.stability.isStableForTesting <=> Ge(ret.stability.score, Num(60))

\* the fences of the IQR rule for the quartiles q
LowerFence(q) == Sub(q.q1, Mul(Frac(3, 2), q.iqr))

UpperFence(q) == Add(q.q3, Mul(Frac(3, 2), q.iqr))

\* C9: a value is reported as an outlier iff it is strictly below
\* q1 - 1.5*iqr or strictly above q3 + 1.5*iqr; outliers.values[k] is the
\* input element at zero-based position outliers.indices[k], the indices
\* are strictly increasing, and count is the length of both lists.
C9_OutlierRule ==
    Reported =>
        LET values == InputValues
            q == calculateQuartiles(values)
            o == ret.outliers
            Listed(i) == \E k \in 1..Len(o.indices) : o.indices[k] = i
        IN  /\ \A i \in 0..(Len(values) - 1) :
                   Listed(i) <=> (\/ Lt(values[i + 1], LowerFence(q))
                                  \/ Gt(values[i + 1], UpperFence(q)))
            /\ o.count = Len(o.values)
            /\ o.count = Len(o.indices)
            /\ \A k \in 1..Len(o.indices) :
                   /\ o.indices[k] \in 0..(Len(values) - 1)
                   /\ o.values[k] = values[o.indices[k] + 1]
            /\ \A k \in 1..(Len(o.indices) - 1) : o.indices[k] < o.indices[k + 1]

\* C9 witness: two outliers reported in input order (the larger one first)
\* while another value lies exactly on a fence and is not reported
C9_Witness ==
    /\ Reported
    /\ ret.outliers.count = 2
    /\ Gt(ret.outliers.values[1], ret.outliers.values[2])
    /\ \E i \in 1..Len(InputValues) :
           /\ InputValues[i] = UpperFence(calculateQuartiles(InputValues))
           /\ \A k \in 1..2 : ret.outliers.indices[k] # i - 1

\* the second report, for the values the first report did not list as outliers
SecondPass == Reported /\ prev # NoCall

\* C10 as stated: removing the reported outliers and running
\* calculateQuartiles plus detectOutliers again on the remaining values
\* reports zero outliers.
C10_SecondPassFindsNone ==
    SecondPass => ret.outliers.count = 0

\* C10 as amended: with the quartiles of the original observation set, the
\* remaining values hold no outlier (with quartiles recomputed from the
\* remaining values the second pass can report more).
C10_NoneLeftInsideOriginalFences ==
    SecondPass =>
        LET original == NumberValues(prev.args.metricValues)
        IN  detectOutliers(InputValues, calculateQuartiles(original)).count = 0

\* C10 witness: the first pass removed an outlier and the second pass, with
\* recomputed quartiles, reports another one
C10_Witness ==
    /\ SecondPass
    /\ prev.ret.outliers.count > 0
    /\ Len(InputValues) = Len(prev.args.metricValues.elems) - prev.ret.outliers.count
    /\ ret.outliers.count > 0

(***************************************************************************)
(* calculateStabilityScore as a function of its three inputs               *)
(* (specification SpecScore): the function is applied to one input, then   *)
(* to a second input that differs from the first in one parameter.         *)
(***************************************************************************)
MaxCvStep == 24

\* coefficients of variation 0, 2.5, 5, .. (the breakpoints 10, 20, 30 and 50
\* and both sides of each), a negative one, Infinity and NaN
CvInputs ==
    {Frac(5 * k, 2) : k \in 0..MaxCvStep} \cup {Num(-5), Infinity, NaN}

OutlierPercentageInputs == {Num(0), Frac(25, 2), Num(50), Num(100)}

SampleSizeInputs == {Num(1), Num(15), Num(29), Num(30), Num(31), Num(100)}

ScoreRequests ==
    [tool : {"calculateStabilityScore"},
     coefficientOfVariation : CvInputs,
     outlierPercentage : OutlierPercentageInputs,
     sampleSize : SampleSizeInputs]

InitScore ==
    /\ pc = "call"
    /\ args \in ScoreRequests
    /\ ret = NoRet
    /\ prev = NoCall
    /\ db = NoDb
    /\ sent = <<>>

CalculateStabilityScore ==
    /\ pc = "call"
    /\ args.tool = "calculateStabilityScore"
    /\ ret' = [ok |-> TRUE, score |-> calculateStabilityScore(args)]
    /\ pc' = "done"
    /\ UNCHANGED <<args, prev, db, sent>>

\* the parameters in which two requests differ
DifferingInputs(a, b) == {f \in DOMAIN a : a[f] # b[f]}

\* the function is applied again with one parameter changed
ScoreAgain ==
    /\ pc = "done"
    /\ args.tool = "calculateStabilityScore"
    /\ prev = NoCall
    /\ \E next \in ScoreRequests :
           /\ Cardinality(DifferingInputs(args, next)) = 1
           /\ args' = next
    /\ prev' = [tool |-> args.tool, args |-> args, ret |-> ret]
    /\ ret' = NoRet
    /\ pc' = "call"
    /\ UNCHANGED <<db, sent>>

NextScore == CalculateStabilityScore \/ ScoreAgain

SpecScore == InitScore /\ [][NextScore]_vars

\* two scores were computed, for inputs that differ only in parameter f
ScoredTwice(f) ==
    /\ pc = "done"
    /\ args.tool = "calculateStabilityScore"
    /\ prev # NoCall
    /\ DifferingInputs(prev.args, args) = {f}

\* C5: with outlier percentage and sample size fixed, the score is
\* non-increasing in the coefficient of variation, across the breakpoints
\* 10, 20, 30 and 50 too.
C5_ScoreNonIncreasingInCv ==
    (/\ ScoredTwice("coefficientOfVariation")
     /\ Le(prev.args.coefficientOfVariation, args.coefficientOfVariation))
        => Ge(prev.ret.score, ret.score)

\* C5 witness: the coefficient of variation moves from at most 20 to above
\* 20 and the score drops
C5_Witness ==
    /\ ScoredTwice("coefficientOfVariation")
    /\ Le(prev.args.coefficientOfVariation, Num(20))
    /\ Gt(args.coefficientOfVariation, Num(20))
    /\ Lt(ret.score, prev.ret.score)

\* C6 as stated: with coefficient of variation and outlier percentage fixed,
\* the score is non-increasing in sampleSize.
C6_ScoreNonIncreasingInSampleSize ==
    (/\ ScoredTwice("sampleSize")
     /\ Le(prev.args.sampleSize, args.sampleSize))
        => Ge(prev.ret.score, ret.score)

\* C6 as amended: with coefficient of variation and outlier percentage
\* fixed, the score is non-decreasing in sampleSize.
C6_ScoreNonDecreasingInSampleSize ==
    (/\ ScoredTwice("sampleSize")
     /\ Le(prev.args.sampleSize, args.sampleSize))
        => Le(prev.ret.score, ret.score)

\* C6 witness: a larger sample below 30 gets a strictly higher score
C6_Witness ==
    /\ ScoredTwice("sampleSize")
    /\ Lt(prev.args.sampleSize, args.sampleSize)
    /\ Lt(args.sampleSize, Num(30))
    /\ Lt(prev.ret.score, ret.score)

\* the penalty schedule of the claim
ClaimedCvPenalty(cv) ==
    IF Le(cv, Num(10)) THEN Num(0)
    ELSE IF Le(cv, Num(20)) THEN Mul(Frac(3, 2), Sub(cv, Num(10)))
    ELSE IF Le(cv, Num(30)) THEN Add(Num(15), Mul(Num(2), Sub(cv, Num(20))))
    ELSE IF Le(cv, Num(50)) THEN Add(Num(35), Mul(Frac(3, 2), Sub(cv, Num(30))))
    ELSE Num(65)

ClaimedScore(p) ==
    LET raw == Sub(Sub(Sub(Num(100), ClaimedCvPenalty(p.coefficientOfVariation)),
                       Mul(Frac(4, 5), p.outlierPercentage)),
                   Mul(Frac(1, 2), MathMax(Num(0), Sub(Num(30), p.sampleSize))))
    IN  IF Lt(raw, Num(0)) THEN Num(0)
        ELSE IF Gt(raw, Num(100)) THEN Num(100)
        ELSE raw

\* C7: for cv >= 0, outlier percentage in [0,100] and sample size >= 1 the
\* score is clamp(100 - cvPenalty - 0.8*outlierPercentage
\* - 0.5*max(0, 30 - n), 0, 100) with the stated penalty schedule, and lies
\* in [0,100].
C7_ScoreFormula ==
    (/\ pc = "done"
     /\ args.tool = "calculateStabilityScore"
     /\ Ge(args.coefficientOfVariation, Num(0))
     /\ Ge(args.outlierPercentage, Num(0))
     /\ Le(args.outlierPercentage, Num(100))
     /\ Ge(args.sampleSize, Num(1)))
        => (/\ ret.score = ClaimedScore(args)
            /\ Ge(ret.score, Num(0))
            /\ Le(ret.score, Num(100)))

\* C7 witness: the penalties exceed 100 and the score is clamped to 0
C7_Witness ==
    /\ pc = "done"
    /\ args.tool = "calculateStabilityScore"
    /\ Gt(args.coefficientOfVariation, Num(50))
    /\ args.outlierPercentage = Num(100)
    /\ args.sampleSize = Num(1)
    /\ ret.score = Num(0)

(***************************************************************************)
(* IEEE-754 double arithmetic.                                             *)
(*                                                                         *)
(* The rational numbers above are exact.  The code computes with doubles:  *)
(* every sum, quotient and product is rounded to 53 significant bits       *)
(* (round to nearest, ties to even).  Where that rounding decides the      *)
(* result, the model follows the code bit by bit, for positive values far  *)
(* from the overflow and the subnormal range.  A natural number is a       *)
(* sequence of bits, most significant first, without leading zeros; a      *)
(* double is a 53-bit mantissa m and an exponent e, and denotes m * 2^e.   *)
(***************************************************************************)
RECURSIVE Bits(_)
Bits(n) == IF n = 0 THEN <<>> ELSE Bits(n \div 2) \o <<n % 2>>

RECURSIVE BitsValue(_)
BitsValue(b) ==
    IF b = <<>> THEN 0 ELSE 2 * BitsValue(SubSeq(b, 1, Len(b) - 1)) + b[Len(b)]

Zeros(k) == [i \in 1..k |-> 0]

\* b * 2^k
ShiftLeft(b, k) == IF b = <<>> THEN <<>> ELSE b \o Zeros(k)

\* a + b + carry for bit sequences of one length, the lower half first
RECURSIVE AddWithCarry(_, _, _)
AddWithCarry(a, b, carry) ==
    IF Len(a) = 0 THEN [s |-> <<>>, c |-> carry]
    ELSE IF Len(a) = 1
    THEN [s |-> <<(a[1] + b[1] + carry) % 2>>, c |-> (a[1] + b[1] + carry) \div 2]
    ELSE LET half == Len(a) \div 2
             low == AddWithCarry(SubSeq(a, half + 1, Len(a)),
                                 SubSeq(b, half + 1, Len(b)), carry)
             high == IF low.c = 0
                     THEN AddWithCarry(SubSeq(a, 1, half), SubSeq(b, 1, half), 0)
                     ELSE AddWithCarry(SubSeq(a, 1, half), SubSeq(b, 1, half), 1)
         IN  [s |-> high.s \o low.s, c |-> high.c]

AddBits(a, b) ==
    LET len == IF Len(a) > Len(b) THEN Len(a) ELSE Len(b)
        sum == AddWithCarry(Zeros(len - Len(a)) \o a, Zeros(len - Len(b)) \o b, 0)
    IN  IF sum.c = 1 THEN <<1>> \o sum.s ELSE sum.s

\* b * c for a natural number c
RECURSIVE MulBits(_, _)
MulBits(b, c) ==
    IF c = 0 THEN <<>>
    ELSE LET twice == ShiftLeft(MulBits(b, c \div 2), 1)
         IN  IF c % 2 = 1 THEN AddBits(twice, b) ELSE twice

TrimZeros(b) ==
    IF \A i \in 1..Len(b) : b[i] = 0 THEN <<>>
    ELSE LET first == CHOOSE i \in 1..Len(b) :
                          b[i] = 1 /\ \A j \in 1..(i - 1) : b[j] = 0
         IN  SubSeq(b, first, Len(b))

\* long division of b by the natural number n > 0, continuing from the
\* remainder r: quotient bits (with leading zeros) and remainder
RECURSIVE DivFrom(_, _, _)
DivFrom(b, n, r) ==
    IF Len(b) = 0 THEN [q |-> <<>>, r |-> r]
    ELSE IF Len(b) = 1
    THEN [q |-> <<(2 * r + b[1]) \div n>>, r |-> (2 * r + b[1]) % n]
    ELSE LET half == Len(b) \div 2
             high == DivFrom(SubSeq(b, 1, half), n, r)
             rest == high.r
             low == IF rest = 0
                    THEN DivFrom(SubSeq(b, half + 1, Len(b)), n, 0)
                    ELSE DivFrom(SubSeq(b, half + 1, Len(b)), n, rest)
         IN  [q |-> high.q \o low.q, r |-> low.r]

DivBits(b, n) == DivFrom(b, n, 0)

MantissaBits == 53

Zero64 == [m |-> <<>>, e |-> 0]

\* the double nearest to b * 2^e (plus a non-zero fraction of 2^e below it
\* when sticky), ties to even; with sticky, b holds more than 54 bits
RoundToDouble(b, e, sticky) ==
    IF b = <<>> THEN Zero64
    ELSE IF Len(b) <= MantissaBits
    THEN [m |-> b \o Zeros(MantissaBits - Len(b)), e |-> e - (MantissaBits - Len(b))]
    ELSE LET kept == SubSeq(b, 1, MantissaBits)
             guard == b[MantissaBits + 1]
             below == sticky \/ \E i \in (MantissaBits + 2)..Len(b) : b[i] = 1
             up == guard = 1 /\ (below \/ kept[MantissaBits] = 1)
             m1 == IF up THEN AddBits(kept, <<1>>) ELSE kept
         IN  IF Len(m1) > MantissaBits
             THEN [m |-> SubSeq(m1, 1, MantissaBits), e |-> e + Len(b) - MantissaBits + 1]
             ELSE [m |-> m1, e |-> e + Len(b) - MantissaBits]

\* x + y for doubles x, y >= 0
Add64(x, y) ==
    IF x = Zero64 THEN y
    ELSE IF y = Zero64 THEN x
    ELSE LET e == IF x.e < y.e THEN x.e ELSE y.e
         IN  RoundToDouble(AddBits(ShiftLeft(x.m, x.e - e), ShiftLeft(y.m, y.e - e)),
                           e, FALSE)

ExtraBits == 80

\* x / n for a double x >= 0 and a natural number n > 0 below 2^20
DivInt64(x, n) ==
    LET qr == DivBits(ShiftLeft(x.m, ExtraBits), n)
    IN  RoundToDouble(TrimZeros(qr.q), x.e - ExtraBits, qr.r # 0)

\* x * c for a double x >= 0 and a natural number c
MulInt64(x, c) == RoundToDouble(MulBits(x.m, c), x.e, FALSE)

\* JSON.parse of the decimal literal n / d (d a power of ten): the double
\* nearest to it
ParseDecimal(n, d) == DivInt64(RoundToDouble(Bits(n), 0, FALSE), d)

\* x <= y for doubles x, y >= 0
BitsLe(a, b) ==
    \/ a = b
    \/ \E i \in 1..Len(a) : a[i] < b[i] /\ \A j \in 1..(i - 1) : a[j] = b[j]

Le64(x, y) ==
    IF x = Zero64 THEN TRUE
    ELSE IF y = Zero64 THEN FALSE
    ELSE IF x.e # y.e THEN x.e < y.e
    ELSE BitsLe(x.m, y.m)

\* Math.round(x) for a double 0 <= x < 2^30: floor(x + 1/2)
MathRound64(x) ==
    IF x = Zero64 \/ -x.e > MantissaBits THEN 0
    ELSE IF x.e >= 0 THEN BitsValue(ShiftLeft(x.m, x.e))
    ELSE BitsValue(SubSeq(x.m, 1, MantissaBits + x.e)) + x.m[MantissaBits + x.e + 1]

\* roundTo(value, 4): Math.round(value * 10000) / 10000, the quotient named
\* by the rational it is the nearest double to
roundTo64(value, decimals) ==
    Frac(MathRound64(MulInt64(value, Pow10(decimals))), Pow10(decimals))

RECURSIVE Sum64(_)
Sum64(values) ==
    IF values = <<>> THEN Zero64
    ELSE Add64(Sum64(SubSeq(values, 1, Len(values) - 1)), values[Len(values)])

calculateMean64(values) == DivInt64(Sum64(values), Len(values))

MathMin64(values) ==
    CHOOSE v \in {values[i] : i \in 1..Len(values)} :
        \A i \in 1..Len(values) : Le64(v, values[i])

MathMax64(values) ==
    CHOOSE v \in {values[i] : i \in 1..Len(values)} :
        \A i \in 1..Len(values) : Le64(values[i], v)

\* A 53-bit mantissa as two machine integers: the upper 26 bits and the
\* lower 27 bits
LowBits == 27

TwoToLowBits == 134217728

HighPart(m) == BitsValue(SubSeq(m, 1, Len(m) - LowBits))

LowPart(m) == BitsValue(SubSeq(m, Len(m) - LowBits + 1, Len(m)))

\* long division of b by the 53-bit number with parts mh and ml, continuing
\* from the remainder with parts rh and rl: quotient bits and remainder
RECURSIVE DivFromWide(_, _, _, _, _)
DivFromWide(b, mh, ml, rh, rl) ==
    IF Len(b) = 0 THEN [q |-> <<>>, rh |-> rh, rl |-> rl]
    ELSE IF Len(b) = 1
    THEN LET low == 2 * rl + b[1]
             th == 2 * rh + low \div TwoToLowBits
             tl == low % TwoToLowBits
         IN  IF th > mh \/ (th = mh /\ tl >= ml)
             THEN [q |-> <<1>>,
                   rh |-> th - mh - (IF tl < ml THEN 1 ELSE 0),
                   rl |-> IF tl < ml THEN tl + TwoToLowBits - ml ELSE tl - ml]
             ELSE [q |-> <<0>>, rh |-> th, rl |-> tl]
    ELSE LET half == Len(b) \div 2
             high == DivFromWide(SubSeq(b, 1, half), mh, ml, rh, rl)
             h == high.rh
             l == high.rl
             low == IF h + l = 0
                    THEN DivFromWide(SubSeq(b, half + 1, Len(b)), mh, ml, 0, 0)
                    ELSE DivFromWide(SubSeq(b, half + 1, Len(b)), mh, ml, h, l)
         IN  [q |-> high.q \o low.q, rh |-> low.rh, rl |-> low.rl]

\* the double of a natural number below 2^31
Int64(n) == RoundToDouble(Bits(n), 0, FALSE)

WideExtraBits == 110

\* n / y for a natural number n and a double y > 0
DivNat64(n, y) ==
    LET qr == DivFromWide(ShiftLeft(Bits(n), WideExtraBits),
                          HighPart(y.m), LowPart(y.m), 0, 0)
    IN  RoundToDouble(TrimZeros(qr.q), 0 - WideExtraBits - y.e, qr.rh + qr.rl # 0)

\* Math.floor(x) for a double 0 <= x < 2^30
MathFloor64(x) ==
    IF x = Zero64 \/ -x.e >= MantissaBits THEN 0
    ELSE IF x.e >= 0 THEN BitsValue(ShiftLeft(x.m, x.e))
    ELSE BitsValue(SubSeq(x.m, 1, MantissaBits + x.e))

\* Math.ceil(x) for a double 0 <= x < 2^30
MathCeil64(x) ==
    IF x = Zero64 THEN 0
    ELSE IF x.e >= 0 THEN BitsValue(ShiftLeft(x.m, x.e))
    ELSE IF -x.e >= MantissaBits THEN 1
    ELSE MathFloor64(x)
             + (IF \E i \in (MantissaBits + x.e + 1)..MantissaBits : x.m[i] = 1
                THEN 1 ELSE 0)

(***************************************************************************)
(* experiment-duration-estimator: getZScore                                *)
(***************************************************************************)
Digit(d) == <<"0", "1", "2", "3", "4", "5", "6", "7", "8", "9">>[d + 1]

\* the decimal digits of the natural number n
RECURSIVE IntStr(_)
IntStr(n) == IF n < 10 THEN Digit(n) ELSE IntStr(n \div 10) \o Digit(n % 10)

\* the last width decimal digits of n, zero-padded
RECURSIVE FixedDigits(_, _)
FixedDigits(n, width) ==
    IF width = 0 THEN "" ELSE FixedDigits(n \div 10, width - 1) \o Digit(n % 10)

\* Number.prototype.toFixed(digits), digits >= 1: the nearest multiple of
\* 10^-digits (of two, the one larger in magnitude), in decimal notation
ToFixed(x, digits) ==
    IF IsNaN(x) THEN "NaN"
    ELSE IF x.k = "inf" THEN (IF x.n < 0 THEN "-Infinity" ELSE "Infinity")
    ELSE LET n == (2 * Abs(x.n) * Pow10(digits) + x.d) \div (2 * x.d)
         IN  (IF x.n < 0 THEN "-" ELSE "")
                 \o IntStr(n \div Pow10(digits)) \o "."
                 \o FixedDigits(n % Pow10(digits), digits)

zTable ==
    ("0.90" :> Frac(1282, 1000)) @@ ("0.95" :> Frac(1645, 1000))
        @@ ("0.975" :> Frac(196, 100)) @@ ("0.99" :> Frac(2326, 1000))
        @@ ("0.995" :> Frac(2576, 1000)) @@ ("0.80" :> Frac(842, 1000))
        @@ ("0.85" :> Frac(1036, 1000))

\* what a call that recurses without end produces: the engine throws
\* RangeError (maximum call stack size exceeded)
RangeError == [k |-> "RangeError", n |-> 0, d |-> 1]

\* The last line of the function calls itself with 1 - probability.  For a
\* probability below 0.5 that call returns at once; for 0.5 and for NaN the
\* argument does not change, so the recursion never ends.
RECURSIVE getZScore(_)
getZScore(probability) ==
    LET key == ToFixed(probability, 3)
        p == probability
        reflected == Sub(Num(1), probability)
    IN  IF key \in DOMAIN zTable /\ zTable[key] # Num(0) THEN zTable[key]
        ELSE IF Gt(probability, Frac(1, 2))
        THEN IF Ge(p, Frac(975, 1000))
             THEN Add(Frac(196, 100),
                      Div(Mul(Sub(p, Frac(975, 1000)),
                              Sub(Frac(2576, 1000), Frac(196, 100))), Frac(2, 100)))
             ELSE IF Ge(p, Frac(95, 100))
             THEN Add(Frac(1645, 1000),
                      Div(Mul(Sub(p, Frac(95, 100)),
                              Sub(Frac(196, 100), Frac(1645, 1000))), Frac(25, 1000)))
             ELSE IF Ge(p, Frac(90, 100))
             THEN Add(Frac(1282, 1000),
                      Div(Mul(Sub(p, Frac(90, 100)),
                              Sub(Frac(1645, 1000), Frac(1282, 1000))), Frac(5, 100)))
             ELSE IF Ge(p, Frac(85, 100))
             THEN Add(Frac(1036, 1000),
                      Div(Mul(Sub(p, Frac(85, 100)),
                              Sub(Frac(1282, 1000), Frac(1036, 1000))), Frac(5, 100)))
             ELSE IF Ge(p, Frac(80, 100))
             THEN Add(Frac(842, 1000),
                      Div(Mul(Sub(p, Frac(80, 100)),
                              Sub(Frac(1036, 1000), Frac(842, 1000))), Frac(5, 100)))
             ELSE Div(Mul(Frac(842, 1000), Sub(p, Frac(1, 2))), Frac(3, 10))
        ELSE IF reflected = probability THEN RangeError
        ELSE Neg(getZScore(reflected))

(***************************************************************************)
(* getZScore as a function of the probability (specification SpecZScore)   *)
(***************************************************************************)
\* the probabilities 0, 0.0002, 0.0004, .., 1
ProbabilityInputs == {Frac(k, 5000) : k \in 0..5000}

ZScoreRequests == [tool : {"getZScore"}, probability : ProbabilityInputs]

InitZScore ==
    /\ pc = "call"
    /\ args \in ZScoreRequests
    /\ ret = NoRet
    /\ prev = NoCall
    /\ db = NoDb
    /\ sent = <<>>

GetZScore ==
    /\ pc = "call"
    /\ args.tool = "getZScore"
    /\ ret' = IF getZScore(args.probability) = RangeError
              THEN [ok |-> FALSE, error |-> "RangeError"]
              ELSE [ok |-> TRUE, z |-> getZScore(args.probability)]
    /\ pc' = "done"
    /\ UNCHANGED <<args, prev, db, sent>>

NextZScore == GetZScore

SpecZScore == InitZScore /\ [][NextZScore]_vars

\* the tabulated probabilities and z-values, in ascending order
TabulatedPoints ==
    << [p |-> Frac(80, 100), z |-> Frac(842, 1000)],
       [p |-> Frac(85, 100), z |-> Frac(1036, 1000)],
       [p |-> Frac(90, 100), z |-> Frac(1282, 1000)],
       [p |-> Frac(95, 100), z |-> Frac(1645, 1000)],
       [p |-> Frac(975, 1000), z |-> Frac(196, 100)],
       [p |-> Frac(99, 100), z |-> Frac(2326, 1000)],
       [p |-> Frac(995, 1000), z |-> Frac(2576, 1000)] >>

\* the point of the line through a and b at probability p
Interpolated(a, b, p) ==
    Add(a.z, Div(Mul(Sub(p, a.p), Sub(b.z, a.z)), Sub(b.p, a.p)))

\* C3: getZScore returns the tabulated z-value for every tabulated
\* probability, and for another probability in (0.5, 1) the linear
\* interpolation between the two adjacent table entries.
C3_TableAndInterpolation ==
    (/\ pc = "done"
     /\ args.tool = "getZScore"
     /\ Gt(args.probability, Frac(1, 2))
     /\ Lt(args.probability, Num(1)))
        => /\ ret.ok
           /\ \A i \in 1..Len(TabulatedPoints) :
                  args.probability = TabulatedPoints[i].p
                      => ret.z = TabulatedPoints[i].z
           /\ \A i \in 1..(Len(TabulatedPoints) - 1) :
                  (/\ Gt(args.probability, TabulatedPoints[i].p)
                   /\ Lt(args.probability, TabulatedPoints[i + 1].p))
                      => ret.z = Interpolated(TabulatedPoints[i],
                                              TabulatedPoints[i + 1],
                                              args.probability)

\* C3, the tabulated probabilities only
C3_TabulatedValues ==
    (pc = "done" /\ args.tool = "getZScore")
        => \A i \in 1..Len(TabulatedPoints) :
               args.probability = TabulatedPoints[i].p
                   => ret.ok /\ ret.z = TabulatedPoints[i].z

(***************************************************************************)
(* experiment-duration-estimator: the tool                                 *)
(***************************************************************************)
\* <<q, r>> with a * c = q * m + r and 0 <= r < m, for a, c >= 0 and m > 0,
\* computed without forming the product a * c
RECURSIVE MulDivMod(_, _, _)
MulDivMod(a, c, m) ==
    IF c = 0 THEN <<0, 0>>
    ELSE LET h == MulDivMod(a, c \div 2, m)
             q2 == 2 * h[1] + (2 * h[2]) \div m
             r2 == (2 * h[2]) % m
             r3 == r2 + (IF c % 2 = 1 THEN a % m ELSE 0)
         IN  <<q2 + (IF c % 2 = 1 THEN a \div m ELSE 0) + r3 \div m, r3 % m>>

\* Math.ceil(x * y) for x >= 0; the product of the numerators is never formed
CeilOfProduct(x, y) ==
    IF ~IsFinite(x) \/ ~IsFinite(y) THEN MathCeil(Mul(x, y))
    ELSE LET qr == MulDivMod(x.n, Abs(y.n), x.d * y.d)
         IN  IF y.n >= 0
             THEN Num(qr[1] + (IF qr[2] > 0 THEN 1 ELSE 0))
             ELSE Num(-qr[1])

\* generateRecommendations of experiment-duration-estimator.ts: which texts
\* are pushed, in order, without the numbers formatted into them
generateDurationRecommendations(params) ==
    LET durationPart ==
            IF Gt(params.estimatedDays, Num(30)) THEN <<"Long duration">>
            ELSE IF Lt(params.estimatedDays, Num(7)) THEN <<"Short duration">>
            ELSE <<"Reasonable duration">>
        mdePart ==
            IF Lt(params.minimumDetectableEffect, Frac(5, 100))
            THEN <<"Very small MDE">> ELSE <<>>
        variantPart ==
            IF Gt(params.numberOfVariants, Num(3))
            THEN <<"Multiple variants">> ELSE <<>>
        dailyTrafficPerVariant == Div(params.dailyTraffic, params.numberOfVariants)
        trafficPart ==
            IF Lt(dailyTrafficPerVariant, Num(100))
            THEN <<"Low daily traffic per variant">> ELSE <<>>
        ratePart ==
            IF Lt(params.baselineConversionRate, Frac(1, 100))
            THEN <<"Low conversion rate">> ELSE <<>>
    IN  durationPart \o mdePart \o variantPart \o trafficPart \o ratePart
            \o <<"Best practice">>

\* the checks of lines 40-58 with the dailyTraffic check moved to the end
ValidationError_TrafficCheckedLast(parameters) ==
    IF \/ Le(parameters.baselineConversionRate, Num(0))
       \/ Ge(parameters.baselineConversionRate, Num(1))
    THEN "Baseline conversion rate must be between 0 and 1"
    ELSE IF Le(parameters.minimumDetectableEffect, Num(0))
    THEN "Minimum detectable effect must be greater than 0"
    ELSE IF \/ Le(parameters.statisticalPower, Num(0))
            \/ Ge(parameters.statisticalPower, Num(1))
    THEN "Statistical power must be between 0 and 1"
    ELSE IF \/ Le(parameters.significanceLevel, Num(0))
            \/ Ge(parameters.significanceLevel, Num(1))
    THEN "Significance level must be between 0 and 1"
    ELSE IF Lt(parameters.numberOfVariants, Num(2))
    THEN "Number of variants must be at least 2"
    ELSE IF Le(parameters.dailyTraffic, Num(0))
    THEN "Daily traffic must be greater than 0"
    ELSE "none"

\* lines 40-58: the message of the first failed check, or "none"
ValidationError(parameters) ==
    IF Le(parameters.dailyTraffic, Num(0))
    THEN "Daily traffic must be greater than 0"
    ELSE IF \/ Le(parameters.baselineConversionRate, Num(0))
            \/ Ge(parameters.baselineConversionRate, Num(1))
    THEN "Baseline conversion rate must be between 0 and 1"
    ELSE IF Le(parameters.minimumDetectableEffect, Num(0))
    THEN "Minimum detectable effect must be greater than 0"
    ELSE IF \/ Le(parameters.statisticalPower, Num(0))
            \/ Ge(parameters.statisticalPower, Num(1))
    THEN "Statistical power must be between 0 and 1"
    ELSE IF \/ Le(parameters.significanceLevel, Num(0))
            \/ Ge(parameters.significanceLevel, Num(1))
    THEN "Significance level must be between 0 and 1"
    ELSE IF Lt(parameters.numberOfVariants, Num(2))
    THEN "Number of variants must be at least 2"
    ELSE "none"

\* lines 84-87: Math.ceil(sampleSizePerVariant / (dailyTraffic /
\* numberOfVariants)).  Both quotients are rounded to doubles: a quotient by
\* 3 is not exact, and the second division can land just above a whole
\* number.  Followed bit by bit for a whole sample size and whole, positive
\* dailyTraffic and numberOfVariants; otherwise the exact quotient.
CeilOfQuotients(sampleSizePerVariant, dailyTraffic, numberOfVariants) ==
    IF \/ ~IsFinite(sampleSizePerVariant) \/ sampleSizePerVariant.d # 1
       \/ ~IsFinite(dailyTraffic) \/ dailyTraffic.d # 1 \/ dailyTraffic.n <= 0
       \/ ~IsFinite(numberOfVariants) \/ numberOfVariants.d # 1
       \/ numberOfVariants.n <= 0
    THEN MathCeil(Div(sampleSizePerVariant, Div(dailyTraffic, numberOfVariants)))
    ELSE LET dailyTrafficPerVariant == DivInt64(Int64(dailyTraffic.n), numberOfVariants.n)
             quotient == DivNat64(Abs(sampleSizePerVariant.n), dailyTrafficPerVariant)
         IN  IF sampleSizePerVariant.n >= 0 THEN Num(MathCeil64(quotient))
             ELSE Num(0 - MathFloor64(quotient))

\* lines 60-114: the estimate for validated parameters and the z-scores.
\* sampleSizePerVariant is Math.ceil(numerator / denominator) with
\* numerator = (zAlpha + zBeta)^2 * (p1(1-p1) + p2(1-p2)); the model divides
\* the second factor by the denominator first, which is the same number.
Estimate(parameters, zAlpha, zBeta) ==
    LET dailyTraffic == parameters.dailyTraffic
        baselineConversionRate == parameters.baselineConversionRate
        minimumDetectableEffect == parameters.minimumDetectableEffect
        numberOfVariants == parameters.numberOfVariants
        variantConversionRate ==
            Mul(baselineConversionRate, Add(Num(1), minimumDetectableEffect))
        p1 == baselineConversionRate
        p2 == variantConversionRate
        zSquared == Mul(Add(zAlpha, zBeta), Add(zAlpha, zBeta))
        variances == Add(Mul(p1, Sub(Num(1), p1)), Mul(p2, Sub(Num(1), p2)))
        denominator == Mul(Sub(p2, p1), Sub(p2, p1))
        sampleSizePerVariant == CeilOfProduct(zSquared, Div(variances, denominator))
        totalRequiredSampleSize == Mul(sampleSizePerVariant, numberOfVariants)
        dailyTrafficPerVariant == Div(dailyTraffic, numberOfVariants)
        estimatedDays ==
            CeilOfQuotients(sampleSizePerVariant, dailyTraffic, numberOfVariants)
        estimatedWeeks == MathCeil(Div(estimatedDays, Num(7)))
        recommendations ==
            generateDurationRecommendations(
                [estimatedDays |-> estimatedDays,
                 dailyTraffic |-> dailyTraffic,
                 sampleSizePerVariant |-> sampleSizePerVariant,
                 minimumDetectableEffect |-> minimumDetectableEffect,
                 numberOfVariants |-> numberOfVariants,
                 baselineConversionRate |-> baselineConversionRate])
    IN  [ok |-> TRUE,
         estimatedDays |-> estimatedDays,
         estimatedWeeks |-> estimatedWeeks,
         requiredSampleSizePerVariant |-> sampleSizePerVariant,
         totalRequiredSampleSize |-> totalRequiredSampleSize,
         dailyTrafficPerVariant |-> dailyTrafficPerVariant,
         assumptions |->
            [statisticalPower |-> parameters.statisticalPower,
             significanceLevel |-> parameters.significanceLevel,
             numberOfVariants |-> numberOfVariants,
             baselineConversionRate |-> baselineConversionRate,
             minimumDetectableEffect |-> minimumDetectableEffect],
         recommendations |-> recommendations]

\* the defaults with a statisticalPower of 0.9
WithDefaults_PowerNinety(parameters) ==
    [parameters EXCEPT
        !.statisticalPower = IF @ = Undefined THEN Frac(9, 10) ELSE @,
        !.significanceLevel = IF @ = Undefined THEN Frac(5, 100) ELSE @,
        !.numberOfVariants = IF @ = Undefined THEN Num(2) ELSE @]

\* lines 31-38: the defaults of the optional parameters
WithDefaults(parameters) ==
    [parameters EXCEPT
        !.statisticalPower = IF @ = Undefined THEN Frac(8, 10) ELSE @,
        !.significanceLevel = IF @ = Undefined THEN Frac(5, 100) ELSE @,
        !.numberOfVariants = IF @ = Undefined THEN Num(2) ELSE @]

\* a getZScore call that overflows the stack rejects the whole call
experimentDurationEstimator(parameters) ==
    LET given == WithDefaults(parameters)
    IN  IF ValidationError(given) # "none"
        THEN [ok |-> FALSE, error |-> ValidationError(given)]
        ELSE LET zAlpha ==
                     getZScore(Sub(Num(1), Div(given.significanceLevel, Num(2))))
                 zBeta == getZScore(given.statisticalPower)
             IN  IF zAlpha = RangeError \/ zBeta = RangeError
                 THEN [ok |-> FALSE, error |-> "RangeError"]
                 ELSE Estimate(given, zAlpha, zBeta)

(***************************************************************************)
(* Requests to experiment-duration-estimator (specification SpecDuration): *)
(* one request, then a second one that differs in one parameter.           *)
(***************************************************************************)
DurationTool == "experiment-duration-estimator"

\* requests that pass the validation
AcceptedDurationRequests ==
    [tool : {DurationTool},
     dailyTraffic : {Num(1), Num(2), Num(100), Num(200), Num(3124), Num(10000),
                     Num(20000)},
     baselineConversionRate : {Frac(5, 100), Frac(1, 2)},
     minimumDetectableEffect : {Frac(1, 10), Frac(2, 10), Num(2)},
     statisticalPower : {Undefined, Frac(2, 10), Frac(1, 2), Frac(65, 100), Frac(9, 10)},
     significanceLevel : {Undefined, Frac(2, 100), Frac(1, 10)},
     numberOfVariants : {Undefined, Num(3), Num(4)}]

\* accepted requests beyond the usual ranges: a significance level near 1,
\* a baseline rate above one half, an effect that takes the rate above 1
UnusualDurationRequests ==
    [tool : {DurationTool},
     dailyTraffic : {Num(2), Num(10000)},
     baselineConversionRate : {Frac(5, 100), Frac(9, 10)},
     minimumDetectableEffect : {Frac(1, 10), Frac(1, 2), Num(2)},
     statisticalPower : {Undefined, Frac(2, 10), Frac(65, 100)},
     significanceLevel : {Undefined, Frac(4, 10), Frac(9, 10)},
     numberOfVariants : {Undefined}]

DocumentedExample ==
    [tool |-> DurationTool,
     dailyTraffic |-> Num(10000),
     baselineConversionRate |-> Frac(5, 100),
     minimumDetectableEffect |-> Frac(1, 10),
     statisticalPower |-> Undefined,
     significanceLevel |-> Undefined,
     numberOfVariants |-> Undefined]

\* the documented example with one or more parameters out of range
RejectedDurationRequests ==
    {[DocumentedExample EXCEPT !.dailyTraffic = v] : v \in {Num(0), Num(-5)}}
        \cup {[DocumentedExample EXCEPT !.baselineConversionRate = v] :
                  v \in {Num(0), Num(1), Frac(3, 2)}}
        \cup {[DocumentedExample EXCEPT !.minimumDetectableEffect = v] :
                  v \in {Num(0), Frac(-1, 10)}}
        \cup {[DocumentedExample EXCEPT !.statisticalPower = v] : v \in {Num(0), Num(1)}}
        \cup {[DocumentedExample EXCEPT !.significanceLevel = v] : v \in {Num(0), Num(1)}}
        \cup {[DocumentedExample EXCEPT !.numberOfVariants = v] : v \in {Num(1), Num(0)}}
        \cup ([tool : {DurationTool},
               dailyTraffic : {Num(10000), Num(0)},
               baselineConversionRate : {Frac(5, 100), Frac(3, 2)},
               minimumDetectableEffect : {Frac(1, 10), Frac(-1, 10)},
               statisticalPower : {Undefined, Num(1)},
               significanceLevel : {Undefined, Num(0)},
               numberOfVariants : {Undefined, Num(1)}] \ {DocumentedExample})

DurationRequests ==
    AcceptedDurationRequests \cup UnusualDurationRequests
        \cup RejectedDurationRequests
        \cup {[DocumentedExample EXCEPT !.numberOfVariants = Num(2)]}

InitDuration ==
    /\ pc = "call"
    /\ args \in DurationRequests
    /\ ret = NoRet
    /\ prev = NoCall
    /\ db = NoDb
    /\ sent = <<>>

ExperimentDurationEstimator ==
    /\ pc = "call"
    /\ args.tool = DurationTool
    /\ ret' = experimentDurationEstimator(args)
    /\ pc' = "done"
    /\ UNCHANGED <<args, prev, db, sent>>

\* the caller asks again with one parameter changed
EstimateAgain ==
    /\ pc = "done"
    /\ args.tool = DurationTool
    /\ prev = NoCall
    /\ \E next \in DurationRequests :
           /\ Cardinality(DifferingInputs(args, next)) = 1
           /\ args' = next
    /\ prev' = [tool |-> args.tool, args |-> args, ret |-> ret]
    /\ ret' = NoRet
    /\ pc' = "call"
    /\ UNCHANGED <<db, sent>>

NextDuration == ExperimentDurationEstimator \/ EstimateAgain

SpecDuration == InitDuration /\ [][NextDuration]_vars

\* two estimates were returned, for requests that differ only in parameter f
EstimatedTwice(f) ==
    /\ pc = "done"
    /\ args.tool = DurationTool
    /\ prev # NoCall
    /\ DifferingInputs(prev.args, args) = {f}
    /\ prev.ret.ok
    /\ ret.ok

\* C4: for every input the validation accepts, doubling dailyTraffic with
\* the other parameters fixed never increases estimatedDays.
C4_DoublingTrafficNeverAddsDays ==
    (/\ EstimatedTwice("dailyTraffic")
     /\ args.dailyTraffic = Mul(Num(2), prev.args.dailyTraffic))
        => Le(ret.estimatedDays, prev.ret.estimatedDays)

\* C4 restricted to requests whose required sample size is not negative
C4_HoldsForNonNegativeSampleSizes ==
    (/\ EstimatedTwice("dailyTraffic")
     /\ args.dailyTraffic = Mul(Num(2), prev.args.dailyTraffic)
     /\ Ge(prev.ret.requiredSampleSizePerVariant, Num(0)))
        => Le(ret.estimatedDays, prev.ret.estimatedDays)

(***************************************************************************)
(* metric-variance-analyzer on doubles: mean, min and max of the report   *)
(***************************************************************************)
\* lines 222-232 and 270-281 of metricVarianceAnalyzer on doubles
Analysis64(values) ==
    LET n == Len(values)
        mean == calculateMean64(values)
        min == MathMin64(values)
        max == MathMax64(values)
    IN  [ok |-> TRUE,
         sampleSize |-> n,
         computed |-> [mean |-> mean, min |-> min, max |-> max],
         statistics |->
            [mean |-> roundTo64(mean, 4),
             min |-> roundTo64(min, 4),
             max |-> roundTo64(max, 4)]]

\* metricValues is a JSON array of decimal literals n / d
metricVarianceAnalyzer64(parameters) ==
    IF Len(parameters.metricValues) = 0
    THEN InvalidMetricValues("metricValues array cannot be empty")
    ELSE Analysis64([i \in 1..Len(parameters.metricValues) |->
                        ParseDecimal(parameters.metricValues[i].n,
                                     parameters.metricValues[i].d)])

MaxLen64 == 3

\* 0.00135, 0.00165, 0.01075, 0.1, 0.5 and 1
DecimalLiterals ==
    {[n |-> k, d |-> 100000] : k \in {135, 165, 1075}}
        \cup {[n |-> 1, d |-> 10], [n |-> 5, d |-> 10], [n |-> 1, d |-> 1]}

AnalyzerRequests64 ==
    {[tool |-> "metric-variance-analyzer", metricValues |-> a] :
        a \in UNION {[1..len -> DecimalLiterals] : len \in 0..MaxLen64}}

Init64 ==
    /\ pc = "call"
    /\ args \in AnalyzerRequests64
    /\ ret = NoRet
    /\ prev = NoCall
    /\ db = NoDb
    /\ sent = <<>>

MetricVarianceAnalyzer64 ==
    /\ pc = "call"
    /\ args.tool = "metric-variance-analyzer"
    /\ ret' = metricVarianceAnalyzer64(args)
    /\ pc' = "done"
    /\ UNCHANGED <<args, prev, db, sent>>

Next64 == MetricVarianceAnalyzer64

Spec64 == Init64 /\ [][Next64]_vars

\* C11: for every non-empty array of finite numbers the mean of the report
\* lies between the reported min and the reported max, inclusive.
C11_MeanBetweenMinAndMax ==
    (pc = "done" /\ args.tool = "metric-variance-analyzer" /\ ret.ok)
        => /\ Le(ret.statistics.min, ret.statistics.mean)
           /\ Le(ret.statistics.mean, ret.statistics.max)

\* C11 for the values before they are rounded to four decimals
C11_ComputedMeanBetweenMinAndMax ==
    (pc = "done" /\ args.tool = "metric-variance-analyzer" /\ ret.ok)
        => /\ Le64(ret.computed.min, ret.computed.mean)
           /\ Le64(ret.computed.mean, ret.computed.max)

(***************************************************************************)
(* Properties of experiment-duration-estimator (specification              *)
(* SpecDuration)                                                           *)
(***************************************************************************)
\* the request was answered, by an estimate or by an error
Estimated ==
    pc = "done" /\ args.tool = DurationTool

\* the parameters of the answered request, defaults filled in
Given == WithDefaults(args)

OutsideUnitInterval(x) == Le(x, Num(0)) \/ Ge(x, Num(1))

\* the constraints of the tool in the order the claim lists them: whether
\* the request violates it, and the message that names the field
Constraints ==
    << [violated |-> Le(Given.dailyTraffic, Num(0)),
        message |-> "Daily traffic must be greater than 0"],
       [violated |-> OutsideUnitInterval(Given.baselineConversionRate),
        message |-> "Baseline conversion rate must be between 0 and 1"],
       [violated |-> Le(Given.minimumDetectableEffect, Num(0)),
        message |-> "Minimum detectable effect must be greater than 0"],
       [violated |-> OutsideUnitInterval(Given.statisticalPower),
        message |-> "Statistical power must be between 0 and 1"],
       [violated |-> OutsideUnitInterval(Given.significanceLevel),
        message |-> "Significance level must be between 0 and 1"],
       [violated |-> Lt(Given.numberOfVariants, Num(2)),
        message |-> "Number of variants must be at least 2"] >>

\* C12: when a constraint is violated the call fails with the message of the
\* first violated constraint and returns no estimate.
C12_FirstViolatedConstraintIsReported ==
    Estimated =>
        \A i \in 1..Len(Constraints) :
            (/\ Constraints[i].violated
             /\ \A j \in 1..(i - 1) : ~Constraints[j].violated)
                => /\ ~ret.ok
                   /\ ret.error = Constraints[i].message
                   /\ "estimatedDays" \notin DOMAIN ret

\* baselineConversionRate = 1.5 together with a later violation
C12_Witness ==
    /\ Estimated
    /\ args.dailyTraffic = Num(10000)
    /\ args.baselineConversionRate = Frac(3, 2)
    /\ args.numberOfVariants = Num(1)
    /\ ret.error = "Baseline conversion rate must be between 0 and 1"

\* the request was answered by an estimate
EstimateReturned == Estimated /\ ret.ok

\* d is the least integer with d * perDay >= needed
LeastCovering(d, perDay, needed) ==
    /\ Ge(Mul(d, perDay), needed)
    /\ Lt(Mul(Sub(d, Num(1)), perDay), needed)

\* C13: for every accepted input totalRequiredSampleSize is
\* requiredSampleSizePerVariant * numberOfVariants, dailyTrafficPerVariant is
\* dailyTraffic / numberOfVariants, estimatedDays is the least integer d with
\* d * dailyTrafficPerVariant >= requiredSampleSizePerVariant, and
\* estimatedWeeks is the least integer w with 7 * w >= estimatedDays.
C13_DerivedQuantities ==
    EstimateReturned =>
        /\ ret.totalRequiredSampleSize
               = Mul(ret.requiredSampleSizePerVariant, Given.numberOfVariants)
        /\ ret.dailyTrafficPerVariant
               = Div(Given.dailyTraffic, Given.numberOfVariants)
        /\ LeastCovering(ret.estimatedDays,
                         Div(Given.dailyTraffic, Given.numberOfVariants),
                         ret.requiredSampleSizePerVariant)
        /\ LeastCovering(ret.estimatedWeeks, Num(7), ret.estimatedDays)

\* C13 without the characterisation of estimatedDays
C13_TotalsAndWeeks ==
    EstimateReturned =>
        /\ ret.totalRequiredSampleSize
               = Mul(ret.requiredSampleSizePerVariant, Given.numberOfVariants)
        /\ ret.dailyTrafficPerVariant
               = Div(Given.dailyTraffic, Given.numberOfVariants)
        /\ LeastCovering(ret.estimatedWeeks, Num(7), ret.estimatedDays)

\* the scenario of the documentation: 10000 visitors a day, a baseline of
\* 5%, a relative effect of 10%, two variants, default power and significance
DocumentedScenario ==
    /\ Estimated
    /\ args = [DocumentedExample EXCEPT !.numberOfVariants = Num(2)]

\* C14: in the documented scenario the estimator uses zAlpha = 1.96 and
\* zBeta = 0.842 and returns requiredSampleSizePerVariant =
\* ceil((1.96 + 0.842)^2 * (0.05 * 0.95 + 0.055 * 0.945) / 0.005^2) = 31240,
\* totalRequiredSampleSize = 62480, estimatedDays = 7, estimatedWeeks = 1.
C14_DocumentedScenario ==
    DocumentedScenario =>
        /\ getZScore(Sub(Num(1), Div(Given.significanceLevel, Num(2))))
               = Frac(196, 100)
        /\ getZScore(Given.statisticalPower) = Frac(842, 1000)
        /\ ret.ok
        /\ ret.requiredSampleSizePerVariant
               = CeilOfProduct(
                     Mul(Frac(2802, 1000), Frac(2802, 1000)),
                     Div(Add(Mul(Frac(5, 100), Frac(95, 100)),
                             Mul(Frac(55, 1000), Frac(945, 1000))),
                         Mul(Frac(5, 1000), Frac(5, 1000))))
        /\ ret.requiredSampleSizePerVariant = Num(31240)
        /\ ret.totalRequiredSampleSize = Num(62480)
        /\ ret.estimatedDays = Num(7)
        /\ ret.estimatedWeeks = Num(1)

C14_Witness ==
    /\ DocumentedScenario
    /\ ret.ok
    /\ ret.estimatedDays = Num(7)
    /\ ret.assumptions.statisticalPower = Frac(8, 10)

(***************************************************************************)
(* Further properties of metric-variance-analyzer (specification Spec)     *)
(***************************************************************************)
\* the k-th smallest of the input values, k = 1 .. n
KthSmallest(k) ==
    LET n == Len(InputValues)
    IN  CHOOSE v \in {InputValues[i] : i \in 1..n} :
            /\ Cardinality({i \in 1..n : Lt(InputValues[i], v)}) < k
            /\ k <= Cardinality({i \in 1..n : Le(InputValues[i], v)})

\* the median of the from-th to the to-th smallest input value
MedianOfRanks(from, to) ==
    LET count == to - from + 1
    IN  IF count % 2 = 1 THEN KthSmallest(from + count \div 2)
        ELSE Div(Add(KthSmallest(from + count \div 2 - 1),
                     KthSmallest(from + count \div 2)), Num(2))

\* C15: q2 is the median, q1 the median of the first floor(n/2) values in
\* ascending order and q3 the median of the last floor(n/2) values; for
\* [10,12,11,13,10] the report gives mean 11.2, sampleSize 5, q1 = 10,
\* q2 = 11, q3 = 12.5 and iqr = 2.5.
C15_ExcludeMedianQuartiles ==
    /\ (Reported /\ Len(InputValues) >= 2) =>
           LET n == Len(InputValues)
               q == calculateQuartiles(InputValues)
           IN  /\ q.q2 = MedianOfRanks(1, n)
               /\ q.q1 = MedianOfRanks(1, n \div 2)
               /\ q.q3 = MedianOfRanks(n - n \div 2 + 1, n)
               /\ ret.statistics.quartiles.q1 = roundTo(q.q1, 4)
               /\ ret.statistics.quartiles.q2 = roundTo(q.q2, 4)
               /\ ret.statistics.quartiles.q3 = roundTo(q.q3, 4)
    /\ (pc = "done" /\ args.tool = "metric-variance-analyzer"
            /\ args.metricValues.t = "array"
            /\ [i \in 1..Len(args.metricValues.elems) |-> args.metricValues.elems[i].v]
                   = DocumentedValues) =>
           /\ ret.ok
           /\ ret.sampleSize = 5
           /\ ret.statistics.mean = Frac(112, 10)
           /\ ret.statistics.quartiles.q1 = Num(10)
           /\ ret.statistics.quartiles.q2 = Num(11)
           /\ ret.statistics.quartiles.q3 = Frac(25, 2)
           /\ ret.statistics.quartiles.iqr = Frac(5, 2)

C15_Witness ==
    /\ Reported
    /\ InputValues = <<Num(10), Num(12), Num(11), Num(13), Num(10)>>
    /\ ret.statistics.quartiles.q3 = Frac(25, 2)

(***************************************************************************)
(* flag-naming-validator (src/src/tools/flag-naming-validator.ts).         *)
(*                                                                         *)
(* A JavaScript string is a sequence of one-character strings.  An         *)
(* optional text parameter is [given |-> TRUE, v |-> text] or Absent.      *)
(***************************************************************************)
LowerCase ==
    << "a", "b", "c", "d", "e", "f", "g", "h", "i", "j", "k", "l", "m",
       "n", "o", "p", "q", "r", "s", "t", "u", "v", "w", "x", "y", "z" >>

UpperCase ==
    << "A", "B", "C", "D", "E", "F", "G", "H", "I", "J", "K", "L", "M",
       "N", "O", "P", "Q", "R", "S", "T", "U", "V", "W", "X", "Y", "Z" >>

DigitChars == {"0", "1", "2", "3", "4", "5", "6", "7", "8", "9"}

IsLower(c) == \E i \in 1..Len(LowerCase) : LowerCase[i] = c

IsUpper(c) == \E i \in 1..Len(UpperCase) : UpperCase[i] = c

\* [a-z0-9]
IsLowerAlnum(c) == IsLower(c) \/ c \in DigitChars

\* [a-zA-Z0-9]
IsAlnum(c) == IsLower(c) \/ IsUpper(c) \/ c \in DigitChars

\* String.prototype.toLowerCase and toUpperCase, character by character
LowerOf(c) ==
    IF IsUpper(c) THEN LowerCase[CHOOSE i \in 1..Len(UpperCase) : UpperCase[i] = c]
    ELSE c

UpperOf(c) ==
    IF IsLower(c) THEN UpperCase[CHOOSE i \in 1..Len(LowerCase) : LowerCase[i] = c]
    ELSE c

toLowerCase(str) == [i \in 1..Len(str) |-> LowerOf(str[i])]

toUpperCase(str) == [i \in 1..Len(str) |-> UpperOf(str[i])]

startsWith(str, part) ==
    Len(part) <= Len(str) /\ SubSeq(str, 1, Len(part)) = part

endsWith(str, part) ==
    Len(part) <= Len(str) /\ SubSeq(str, Len(str) - Len(part) + 1, Len(str)) = part

includes(str, part) ==
    \E i \in 0..(Len(str) - Len(part)) : SubSeq(str, i + 1, i + Len(part)) = part

\* str without its leading and trailing characters of the set stripped
StripEnds(str, stripped) ==
    IF \A i \in 1..Len(str) : str[i] \in stripped THEN <<>>
    ELSE LET first == CHOOSE i \in 1..Len(str) :
                          str[i] \notin stripped /\ \A j \in 1..(i - 1) : str[j] \in stripped
             last == CHOOSE i \in 1..Len(str) :
                         str[i] \notin stripped /\ \A j \in (i + 1)..Len(str) : str[j] \in stripped
         IN  SubSeq(str, first, last)

\* white space and line terminators
WhiteSpace == {" ", "\t", "\n", "\r"}

trim(str) == StripEnds(str, WhiteSpace)

\* str.split(sep) for a one-character separator
RECURSIVE split(_, _)
split(str, sep) ==
    IF \A i \in 1..Len(str) : str[i] # sep THEN <<str>>
    ELSE LET at == CHOOSE i \in 1..Len(str) :
                       str[i] = sep /\ \A j \in 1..(i - 1) : str[j] # sep
         IN  <<SubSeq(str, 1, at - 1)>> \o split(SubSeq(str, at + 1, Len(str)), sep)

\* parts.join("")
RECURSIVE join(_)
join(parts) == IF parts = <<>> THEN <<>> ELSE Head(parts) \o join(Tail(parts))

\* str.replace(/[^kept]/g, by): every character outside kept replaced
ReplaceEach(str, kept, by) ==
    [i \in 1..Len(str) |-> IF str[i] \in kept THEN str[i] ELSE by]

\* str.replace(/[^kept]+/g, by): every maximal run outside kept replaced
RECURSIVE ReplaceRuns(_, _, _)
ReplaceRuns(str, kept, by) ==
    IF str = <<>> THEN <<>>
    ELSE LET n == Len(str)
             before == ReplaceRuns(SubSeq(str, 1, n - 1), kept, by)
         IN  IF str[n] \in kept THEN before \o <<str[n]>>
             ELSE IF n > 1 /\ str[n - 1] \notin kept THEN before
             ELSE before \o <<by>>

Absent == [given |-> FALSE, v |-> <<>>]

Text(text) == [given |-> TRUE, v |-> text]

\* a parameter that is neither undefined nor the empty string
Truthy(param) == param.given /\ Len(param.v) > 0

\* [a-z0-9] and [a-zA-Z0-9]
LowerAlnumChars == {LowerCase[i] : i \in 1..Len(LowerCase)} \cup DigitChars

AlnumChars == LowerAlnumChars \cup {UpperCase[i] : i \in 1..Len(UpperCase)}

\* /[^a-zA-Z0-9_-]/
IsSpecial(c) == ~(IsAlnum(c) \/ c = "_" \/ c = "-")

\* /^[a-z]+(sep[a-z]+)*$/: the pattern without the digits
MatchesWords_LettersOnly(name, sep) ==
    /\ Len(name) > 0
    /\ \A i \in 1..Len(name) : IsLower(name[i]) \/ name[i] = sep
    /\ name[1] # sep
    /\ name[Len(name)] # sep
    /\ \A i \in 1..(Len(name) - 1) : ~(name[i] = sep /\ name[i + 1] = sep)

\* /^[a-z0-9]+(sep[a-z0-9]+)*$/: lowercase alphanumeric words, one
\* separator between two words, none at either end
MatchesWords(name, sep) ==
    /\ Len(name) > 0
    /\ \A i \in 1..Len(name) : IsLowerAlnum(name[i]) \/ name[i] = sep
    /\ name[1] # sep
    /\ name[Len(name)] # sep
    /\ \A i \in 1..(Len(name) - 1) : ~(name[i] = sep /\ name[i + 1] = sep)

\* /^[a-z][a-zA-Z0-9]*$/ and /^[A-Z][a-zA-Z0-9]*$/
MatchesCamel(name) ==
    Len(name) > 0 /\ IsLower(name[1]) /\ \A i \in 1..Len(name) : IsAlnum(name[i])

MatchesPascal(name) ==
    Len(name) > 0 /\ IsUpper(name[1]) /\ \A i \in 1..Len(name) : IsAlnum(name[i])

\* The custom patterns of the model: the example of the parameter
\* description and a text that is no regular expression.
ExamplePattern == "^ff_[a-z]+_[0-9]+$"

BrokenPattern == "("

\* /^ff_[a-z]+_[0-9]+$/
MatchesExamplePattern(name) ==
    /\ startsWith(name, <<"f", "f", "_">>)
    /\ \E at \in 5..(Len(name) - 1) :
           /\ name[at] = "_"
           /\ \A i \in 4..(at - 1) : IsLower(name[i])
           /\ \A i \in (at + 1)..Len(name) : name[i] \in DigitChars

\* word.charAt(0).toUpperCase() + word.slice(1).toLowerCase()
Capitalize(word) ==
    IF word = <<>> THEN <<>> ELSE <<UpperOf(word[1])>> \o toLowerCase(Tail(word))

\* lines 317-325 and 337-344: the words between the characters that are not
\* alphanumeric, the first one in lower case (camelCase) or capitalized
\* (PascalCase), the others capitalized, joined
JoinedWords(name, firstLower) ==
    LET words == split(ReplaceEach(name, AlnumChars, " "), " ")
    IN  join([i \in 1..Len(words) |->
                 IF i = 1 /\ firstLower THEN toLowerCase(words[i])
                 ELSE Capitalize(words[i])])

\* lines 374-379: the result for a convention with a pattern
ConventionResult(valid, passMessage, failMessage, suggestion, corrected) ==
    [threw |-> FALSE,
     valid |-> valid,
     message |-> IF valid THEN passMessage ELSE failMessage,
     suggestion |-> IF valid THEN "" ELSE suggestion,
     corrected |-> IF valid THEN Absent ELSE Text(corrected)]

\* convention is one of the words the switch compares it with (or another
\* word); customPattern is Absent or names one of the patterns above
validateNamingConvention(name, convention, customPattern) ==
    IF convention = "snake_case"
    THEN ConventionResult(MatchesWords(name, "_"),
             "Follows snake_case convention",
             "Does not follow snake_case convention",
             "Use lowercase letters and numbers separated by underscores",
             StripEnds(ReplaceRuns(toLowerCase(name), LowerAlnumChars, "_"), {"_"}))
    ELSE IF convention = "kebab-case"
    THEN ConventionResult(MatchesWords(name, "-"),
             "Follows kebab-case convention",
             "Does not follow kebab-case convention",
             "Use lowercase letters and numbers separated by hyphens",
             StripEnds(ReplaceRuns(toLowerCase(name), LowerAlnumChars, "-"), {"-"}))
    ELSE IF convention = "camelCase"
    THEN ConventionResult(MatchesCamel(name),
             "Follows camelCase convention",
             "Does not follow camelCase convention",
             "Start with lowercase, use camelCase for word boundaries",
             JoinedWords(name, TRUE))
    ELSE IF convention = "PascalCase"
    THEN ConventionResult(MatchesPascal(name),
             "Follows PascalCase convention",
             "Does not follow PascalCase convention",
             "Start with uppercase, use PascalCase for word boundaries",
             JoinedWords(name, FALSE))
    ELSE IF convention = "custom"
    THEN IF ~customPattern.given \/ customPattern.v = ""
         THEN [threw |-> FALSE, valid |-> FALSE,
               message |-> "Custom pattern not provided",
               suggestion |-> "Provide a customPattern parameter",
               corrected |-> Absent]
         ELSE IF customPattern.v = BrokenPattern
         THEN [threw |-> TRUE, valid |-> FALSE, message |-> "SyntaxError",
               suggestion |-> "", corrected |-> Absent]
         ELSE ConventionResult(MatchesExamplePattern(name),
                  "Follows custom naming pattern",
                  "Does not follow custom naming pattern",
                  "Name must match pattern", name)
    ELSE [threw |-> FALSE, valid |-> FALSE,
          message |-> "Unknown naming convention",
          suggestion |-> "Use snake_case, kebab-case, camelCase, PascalCase, or custom",
          corrected |-> Absent]

GenericNames ==
    { <<"t", "e", "s", "t">>,
      <<"t", "e", "m", "p">>,
      <<"f", "l", "a", "g">>,
      <<"f", "e", "a", "t", "u", "r", "e">>,
      <<"e", "x", "p", "e", "r", "i", "m", "e", "n", "t">>,
      <<"n", "e", "w">>,
      <<"o", "l", "d">> }

Check(rule, status, message) == [rule |-> rule, status |-> status, message |-> message]

\* lines 382-442
performReadabilityChecks(name) ==
    LET separators ==
            \E i \in 1..(Len(name) - 1) :
                name[i] = name[i + 1] /\ (name[i] = "_" \/ name[i] = "-")
        startsWithDigit == Len(name) > 0 /\ name[1] \in DigitChars
        generic == toLowerCase(name) \in GenericNames
        wordCount ==
            1 + Cardinality({i \in 1..Len(name) : name[i] = "_" \/ name[i] = "-"})
        unseparated == wordCount = 1 /\ Len(name) > 15
    IN  [checks |->
            (IF separators
             THEN <<Check("Readability - Separators", "warning",
                          "Multiple consecutive separators detected")>>
             ELSE <<>>)
            \o (IF startsWithDigit
                THEN <<Check("Readability - Start Character", "warning",
                             "Flag name starts with a number")>>
                ELSE <<>>)
            \o (IF generic
                THEN <<Check("Descriptiveness", "fail", "Flag name is too generic")>>
                ELSE <<Check("Descriptiveness", "pass", "Flag name appears descriptive")>>)
            \o (IF unseparated
                THEN <<Check("Readability - Word Separation", "warning",
                             "Long name without word separators may be hard to read")>>
                ELSE <<>>),
         suggestions |->
            (IF separators
             THEN <<"Avoid multiple consecutive underscores or hyphens.">> ELSE <<>>)
            \o (IF startsWithDigit
                THEN <<"Consider starting with a letter for better readability.">>
                ELSE <<>>)
            \o (IF generic THEN <<"Use a more descriptive name">> ELSE <<>>)
            \o (IF unseparated
                THEN <<"Consider using separators to break up long names.">>
                ELSE <<>>)]

NoPattern == [given |-> FALSE, v |-> ""]

NoConvention == [given |-> FALSE, v |-> ""]

\* lines 444-498
generateExamples(params) ==
    LET first == IF Truthy(params.allowedCategories)
                 THEN trim(Head(split(params.allowedCategories.v, ",")))
                 ELSE <<>>
        category == IF Len(first) > 0 THEN first ELSE <<"f", "e", "a", "t", "u", "r", "e">>
        team == IF Truthy(params.teamPrefix) THEN params.teamPrefix.v ELSE <<>>
        pre == IF Truthy(params.prefix) THEN params.prefix.v ELSE <<>>
        suf == IF Truthy(params.suffix) THEN params.suffix.v ELSE <<>>
    IN  IF params.namingConvention = "snake_case"
        THEN << pre \o team \o category \o <<"_", "n", "e", "w", "_", "c", "h", "e", "c", "k", "o", "u", "t">> \o suf,
                pre \o team \o category \o <<"_", "p", "a", "y", "m", "e", "n", "t", "_", "g", "a", "t", "e", "w", "a", "y", "_", "v", "2">> \o suf,
                pre \o team \o category \o <<"_", "m", "o", "b", "i", "l", "e", "_", "n", "a", "v", "i", "g", "a", "t", "i", "o", "n">> \o suf >>
        ELSE IF params.namingConvention = "kebab-case"
        THEN << pre \o team \o category \o <<"-", "n", "e", "w", "-", "c", "h", "e", "c", "k", "o", "u", "t">> \o suf,
                pre \o team \o category \o <<"-", "p", "a", "y", "m", "e", "n", "t", "-", "g", "a", "t", "e", "w", "a", "y", "-", "v", "2">> \o suf,
                pre \o team \o category \o <<"-", "m", "o", "b", "i", "l", "e", "-", "n", "a", "v", "i", "g", "a", "t", "i", "o", "n">> \o suf >>
        ELSE IF params.namingConvention \in {"camelCase", "PascalCase"}
        THEN << pre \o team \o category \o <<"N", "e", "w", "C", "h", "e", "c", "k", "o", "u", "t">> \o suf,
                pre \o team \o category \o <<"P", "a", "y", "m", "e", "n", "t", "G", "a", "t", "e", "w", "a", "y", "V", "2">> \o suf,
                pre \o team \o category \o <<"M", "o", "b", "i", "l", "e", "N", "a", "v", "i", "g", "a", "t", "i", "o", "n">> \o suf >>
        ELSE << pre \o team \o <<"n", "e", "w", "_", "c", "h", "e", "c", "k", "o", "u", "t">> \o suf,
                pre \o team \o <<"p", "a", "y", "m", "e", "n", "t", "_", "v", "2">> \o suf,
                pre \o team \o <<"m", "o", "b", "i", "l", "e", "_", "n", "a", "v">> \o suf >>

NonEmpty(text) == text # ""

CountStatus(checks, status) ==
    Cardinality({i \in 1..Len(checks) : checks[i].status = status})

\* lines 33-261
flagNamingValidator(parameters) ==
    LET flagName == parameters.flagName
        namingConvention == IF parameters.namingConvention.given
                            THEN parameters.namingConvention.v ELSE "snake_case"
        customPattern == parameters.customPattern
        prefix == parameters.prefix
        suffix == parameters.suffix
        maxLength == IF parameters.maxLength = Undefined THEN Num(50)
                     ELSE parameters.maxLength
        minLength == IF parameters.minLength = Undefined THEN Num(5)
                     ELSE parameters.minLength
        allowedCategories == parameters.allowedCategories
        teamPrefix == parameters.teamPrefix
        length == Num(Len(flagName))
        tooLong == Gt(length, maxLength)
        tooShort == Lt(length, minLength)
        conventionResult ==
            validateNamingConvention(flagName, namingConvention, customPattern)
        hasPrefix == Truthy(prefix) /\ startsWith(flagName, prefix.v)
        hasSuffix == Truthy(suffix) /\ endsWith(flagName, suffix.v)
        checkName == IF Truthy(prefix)
                     THEN SubSeq(flagName, Len(prefix.v) + 1, Len(flagName))
                     ELSE flagName
        hasTeam == Truthy(teamPrefix) /\ startsWith(checkName, teamPrefix.v)
        categories == IF Truthy(allowedCategories)
                      THEN LET parts == split(allowedCategories.v, ",")
                           IN  [i \in 1..Len(parts) |-> trim(parts[i])]
                      ELSE <<>>
        categoryMatch ==
            \E i \in 1..Len(categories) :
                includes(toLowerCase(flagName), toLowerCase(categories[i]))
        special == \E i \in 1..Len(flagName) : IsSpecial(flagName[i])
        readabilityChecks == performReadabilityChecks(flagName)
        checks ==
            << IF tooLong
               THEN Check("Maximum Length", "fail", "exceeds maximum")
               ELSE Check("Maximum Length", "pass", "is within limit") >>
            \o << IF tooShort
                  THEN Check("Minimum Length", "fail", "below minimum")
                  ELSE Check("Minimum Length", "pass", "meets minimum") >>
            \o << Check("Naming Convention",
                        IF conventionResult.valid THEN "pass" ELSE "fail",
                        conventionResult.message) >>
            \o (IF ~Truthy(prefix) THEN <<>>
                ELSE IF hasPrefix
                THEN <<Check("Required Prefix", "pass", "starts with required prefix")>>
                ELSE <<Check("Required Prefix", "fail", "must start with prefix")>>)
            \o (IF ~Truthy(suffix) THEN <<>>
                ELSE IF hasSuffix
                THEN <<Check("Required Suffix", "pass", "ends with required suffix")>>
                ELSE <<Check("Required Suffix", "fail", "must end with suffix")>>)
            \o (IF ~Truthy(teamPrefix) THEN <<>>
                ELSE IF hasTeam
                THEN <<Check("Team Prefix", "pass", "includes team identifier")>>
                ELSE <<Check("Team Prefix", "warning", "Consider adding team identifier")>>)
            \o (IF ~Truthy(allowedCategories) THEN <<>>
                ELSE IF categoryMatch
                THEN <<Check("Category Identifier", "pass", "includes a valid category")>>
                ELSE <<Check("Category Identifier", "warning", "should include a category")>>)
            \o << IF special
                  THEN Check("Special Characters", "fail",
                             "Flag name contains invalid special characters")
                  ELSE Check("Special Characters", "pass",
                             "No invalid special characters detected") >>
            \o readabilityChecks.checks
        afterConvention ==
            IF ~conventionResult.valid /\ Truthy(conventionResult.corrected)
            THEN conventionResult.corrected.v ELSE flagName
        afterPrefix ==
            IF Truthy(prefix) /\ ~hasPrefix /\ ~startsWith(afterConvention, prefix.v)
            THEN prefix.v \o afterConvention ELSE afterConvention
        afterSuffix ==
            IF Truthy(suffix) /\ ~hasSuffix /\ ~endsWith(afterPrefix, suffix.v)
            THEN afterPrefix \o suffix.v ELSE afterPrefix
        correctedName ==
            IF special THEN ReplaceEach(afterSuffix, AlnumChars \cup {"_", "-"}, "_") ELSE afterSuffix
        validationSummary ==
            [passed |-> CountStatus(checks, "pass"),
             failed |-> CountStatus(checks, "fail"),
             warnings |-> CountStatus(checks, "warning")]
        isValid == validationSummary.failed = 0
        suggestions ==
            (IF tooLong THEN <<"Shorten the name">> ELSE <<>>)
            \o (IF tooShort THEN <<"Extend the name">> ELSE <<>>)
            \o (IF conventionResult.valid THEN <<>> ELSE <<conventionResult.suggestion>>)
            \o (IF Truthy(prefix) /\ ~hasPrefix THEN <<"Add prefix">> ELSE <<>>)
            \o (IF Truthy(suffix) /\ ~hasSuffix THEN <<"Add suffix">> ELSE <<>>)
            \o (IF Truthy(teamPrefix) /\ ~hasTeam THEN <<"Add team prefix">> ELSE <<>>)
            \o (IF Truthy(allowedCategories) /\ ~categoryMatch
                THEN <<"Include a category identifier">> ELSE <<>>)
            \o (IF special THEN <<"Remove special characters">> ELSE <<>>)
            \o readabilityChecks.suggestions
            \o (IF isValid /\ validationSummary.warnings = 0
                THEN <<"Flag name follows all conventions - good to go!">>
                ELSE IF isValid
                THEN <<"Flag name is valid but consider addressing warnings">>
                ELSE <<>>)
    IN  IF Len(trim(flagName)) = 0
        THEN [ok |-> FALSE, error |-> "flagName is required and cannot be empty"]
        ELSE IF conventionResult.threw
        THEN [ok |-> FALSE, error |-> "SyntaxError"]
        ELSE [ok |-> TRUE,
              isValid |-> isValid,
              flagName |-> flagName,
              validationSummary |-> validationSummary,
              checks |-> checks,
              suggestions |-> SelectSeq(suggestions, NonEmpty),
              correctedName |-> IF correctedName # flagName
                                THEN Text(correctedName) ELSE Absent,
              examples |->
                  generateExamples(
                      [namingConvention |-> namingConvention,
                       prefix |-> prefix,
                       suffix |-> suffix,
                       teamPrefix |-> teamPrefix,
                       allowedCategories |-> allowedCategories])]

(***************************************************************************)
(* Requests to flag-naming-validator and its specification.               *)
(***************************************************************************)

FlagTool == "flag-naming-validator"

MaxNameLen == 3

\* one character of each class the patterns tell apart
NameChars == {"a", "B", "1", "_", "-", "!", " "}

RECURSIVE NamesUpTo(_)
NamesUpTo(n) ==
    IF n = 0 THEN {<<>>}
    ELSE LET shorter == NamesUpTo(n - 1)
         IN  shorter \cup {Append(name, c) : name \in shorter, c \in NameChars}

FeatureNewCheckout == <<"f", "e", "a", "t", "u", "r", "e", "_", "n", "e", "w", "_", "c", "h", "e", "c", "k", "o", "u", "t">>

DocumentedNames ==
    { FeatureNewCheckout,
      <<"t", "e", "s", "t">>, <<"T", "e", "m", "p">>, <<"f", "e", "a", "t", "u", "r", "e">>, <<"n", "e", "w">>,
      <<"f", "f", "_", "c", "h", "e", "c", "k", "o", "u", "t", "_", "1", "2">>,
      <<"f", "e", "a", "t", "u", "r", "e", "-", "n", "e", "w", "-", "c", "h", "e", "c", "k", "o", "u", "t">>,
      <<"f", "e", "a", "t", "u", "r", "e", "N", "e", "w", "C", "h", "e", "c", "k", "o", "u", "t">>,
      <<"F", "e", "a", "t", "u", "r", "e", "N", "e", "w", "C", "h", "e", "c", "k", "o", "u", "t">>,
      <<"a", "v", "e", "r", "y", "v", "e", "r", "y", "v", "e", "r", "y", "l", "o", "n", "g", "n", "a", "m", "e">>,
      <<"1", "s", "t", "_", "f", "e", "a", "t", "u", "r", "e">>,
      <<"u", "i", "_", "f", "e", "a", "t", "u", "r", "e", "_", "_", "v", "2">>,
      <<"N", "e", "w", " ", "C", "h", "e", "c", "k", "o", "u", "t", "!">> }

FlagNames == NamesUpTo(MaxNameLen) \cup DocumentedNames

Conventions ==
    {NoConvention} \cup
    {[given |-> TRUE, v |-> c] :
        c \in {"snake_case", "kebab-case", "camelCase", "PascalCase", "hungarian"}}

CustomConventions ==
    {[namingConvention |-> [given |-> TRUE, v |-> "custom"], customPattern |-> p] :
        p \in {NoPattern,
               [given |-> TRUE, v |-> ""],
               [given |-> TRUE, v |-> ExamplePattern],
               [given |-> TRUE, v |-> BrokenPattern]}}

ConventionChoices ==
    {[namingConvention |-> c, customPattern |-> NoPattern] : c \in Conventions}
        \cup CustomConventions

LengthLimits ==
    { [minLength |-> Undefined, maxLength |-> Undefined],
      [minLength |-> Num(1), maxLength |-> Num(2)],
      [minLength |-> Num(3), maxLength |-> Num(20)] }

FlagRequest(name, convention, limits, prefix, suffix, teamPrefix, allowedCategories) ==
    [tool |-> FlagTool,
     flagName |-> name,
     namingConvention |-> convention.namingConvention,
     customPattern |-> convention.customPattern,
     prefix |-> prefix,
     suffix |-> suffix,
     maxLength |-> limits.maxLength,
     minLength |-> limits.minLength,
     allowedCategories |-> allowedCategories,
     teamPrefix |-> teamPrefix]

\* every name under every convention and length limit, nothing else required
ConventionRequests ==
    {FlagRequest(name, convention, limits, Absent, Absent, Absent, Absent) :
        name \in FlagNames, convention \in ConventionChoices, limits \in LengthLimits}

AffixedNames ==
    DocumentedNames \cup
    { <<"a">>, <<"a", "_">>, <<"a", "_", "a">>, <<"a", "_", "1">>, <<"1", "_", "a">>, <<"a", "-", "a">>, <<"a", "B", "1">>, <<"B", "_", "a">>, <<"a", "!", "a">>, <<"_", "a", "_">>, <<"a", "_", "_">> }

Prefixes == {Absent, Text(<<>>), Text(<<"a", "_">>), Text(<<"f", "f", "_">>)}

Suffixes == {Absent, Text(<<"_", "a">>), Text(<<"_", "1", "2">>)}

TeamPrefixes == {Absent, Text(<<"a">>), Text(<<"c", "h", "e", "c", "k", "o", "u", "t">>)}

CategoryLists ==
    {Absent, Text(<<"f", "e", "a", "t", "u", "r", "e", ",", " ", "e", "x", "p", "e", "r", "i", "m", "e", "n", "t">>), Text(<<"a", ",">>), Text(<<" ", ",", " ", "b">>)}

\* names with required affixes, team prefixes and categories
AffixRequests ==
    {FlagRequest(name, convention, limits, prefix, suffix, teamPrefix, categories) :
        name \in AffixedNames,
        convention \in {[namingConvention |-> c, customPattern |-> NoPattern] :
                           c \in {NoConvention,
                                  [given |-> TRUE, v |-> "snake_case"],
                                  [given |-> TRUE, v |-> "kebab-case"],
                                  [given |-> TRUE, v |-> "camelCase"]}},
        limits \in {[minLength |-> Undefined, maxLength |-> Undefined]},
        prefix \in Prefixes, suffix \in Suffixes,
        teamPrefix \in TeamPrefixes, categories \in CategoryLists}

FlagRequests == ConventionRequests \cup AffixRequests

InitFlag ==
    /\ pc = "call"
    /\ args \in FlagRequests
    /\ ret = NoRet
    /\ prev = NoCall
    /\ db = NoDb
    /\ sent = <<>>

FlagNamingValidator ==
    /\ pc = "call"
    /\ args.tool = FlagTool
    /\ ret' = flagNamingValidator(args)
    /\ pc' = "done"
    /\ UNCHANGED <<args, prev, db, sent>>

\* the caller validates the corrected name with the same parameters
ValidateCorrectedName ==
    /\ pc = "done"
    /\ args.tool = FlagTool
    /\ prev = NoCall
    /\ ret.ok
    /\ ret.correctedName.given
    /\ args' = [args EXCEPT !.flagName = ret.correctedName.v]
    /\ prev' = [tool |-> args.tool, args |-> args, ret |-> ret]
    /\ ret' = NoRet
    /\ pc' = "call"
    /\ UNCHANGED <<db, sent>>

NextFlag == FlagNamingValidator \/ ValidateCorrectedName

SpecFlag == InitFlag /\ [][NextFlag]_vars

(***************************************************************************)
(* Properties of flag-naming-validator.                                    *)
(***************************************************************************)

FlagValidated ==
    /\ pc = "done"
    /\ args.tool = FlagTool

\* lowercase alphanumeric words joined by single underscores
IsWord(word) ==
    Len(word) > 0 /\ \A i \in 1..Len(word) : IsLower(word[i]) \/ word[i] \in DigitChars

SnakeCaseName(name) ==
    LET words == split(name, "_")
    IN  \A i \in 1..Len(words) : IsWord(words[i])

NoAffixRequired ==
    /\ args.prefix \in {Absent, Text(<<>>)}
    /\ args.suffix \in {Absent, Text(<<>>)}

CheckedAsSnakeCase ==
    ~args.namingConvention.given \/ args.namingConvention.v = "snake_case"

LengthWithinLimits ==
    /\ Len(args.flagName) >= (IF args.minLength = Undefined THEN 5 ELSE args.minLength.n)
    /\ Len(args.flagName) <= (IF args.maxLength = Undefined THEN 50 ELSE args.maxLength.n)

C16_Case ==
    /\ FlagValidated
    /\ SnakeCaseName(args.flagName)
    /\ LengthWithinLimits
    /\ toLowerCase(args.flagName) \notin GenericNames
    /\ CheckedAsSnakeCase
    /\ NoAffixRequired

\* C16: a snake_case name of a length within the limits that is not a
\* generic word, checked with convention snake_case and no required prefix
\* or suffix, has no failed check and is valid.
C16_SnakeCaseNamesAreValid ==
    C16_Case =>
        /\ ret.ok
        /\ ret.isValid
        /\ ret.validationSummary.failed = 0
        /\ \A i \in 1..Len(ret.checks) : ret.checks[i].status # "fail"

C16_Witness ==
    /\ C16_Case
    /\ args.flagName = FeatureNewCheckout
    /\ ret.ok
    /\ ret.isValid
    /\ ret.validationSummary = [passed |-> 5, failed |-> 0, warnings |-> 0]

(***************************************************************************)
(* Error handling of metric-variance-analyzer (specification Spec).        *)
(***************************************************************************)
Analyzed == pc = "done" /\ args.tool = "metric-variance-analyzer"

NotParseable == args.metricValues.json = "malformed"

NotAnArray == args.metricValues.json = "parsed" /\ args.metricValues.t # "array"

EmptyArray ==
    /\ args.metricValues.json = "parsed"
    /\ args.metricValues.t = "array"
    /\ args.metricValues.elems = <<>>

HasNonNumber ==
    /\ args.metricValues.json = "parsed"
    /\ args.metricValues.t = "array"
    /\ \E i \in 1..Len(args.metricValues.elems) :
           args.metricValues.elems[i].t \in OtherJsonTypes

\* C17: when metricValues is not parseable, parses to a non-array, is an
\* empty array or has an element that is not a number, the call throws an
\* error that names metricValues and nothing of a report is returned.
C17_InvalidValuesGiveNoReport ==
    (Analyzed /\ (NotParseable \/ NotAnArray \/ EmptyArray \/ HasNonNumber)) =>
        /\ ~ret.ok
        /\ ret.error = "Invalid metricValues format"
        /\ DOMAIN ret = {"ok", "error", "message"}

\* the numbers before the text do not lead to a report
C17_Witness ==
    /\ Analyzed
    /\ args.metricValues = JArray(<<JNumber(1), JNumber(3), JElement("string")>>)
    /\ ~ret.ok
    /\ ret.message = "All metric values must be valid numbers"

(***************************************************************************)
(* Monotonicity of experiment-duration-estimator (specification           *)
(* SpecDuration).                                                          *)
(***************************************************************************)
PowerOf(request) == WithDefaults(request).statisticalPower

\* C18: of two accepted requests that differ only in statisticalPower, the
\* one with the higher power has a requiredSampleSizePerVariant at least as
\* large.
C18_HigherPowerNeedsLargerSamples ==
    (/\ EstimatedTwice("statisticalPower")
     /\ Gt(PowerOf(args), PowerOf(prev.args)))
        => Ge(ret.requiredSampleSizePerVariant,
              prev.ret.requiredSampleSizePerVariant)

\* C18 restricted to powers above one half and sample sizes that are not
\* negative
C18_HoldsForPowerAboveHalf ==
    (/\ EstimatedTwice("statisticalPower")
     /\ Gt(PowerOf(args), PowerOf(prev.args))
     /\ Gt(PowerOf(prev.args), Frac(1, 2))
     /\ Ge(ret.requiredSampleSizePerVariant, Num(0)))
        => Ge(ret.requiredSampleSizePerVariant,
              prev.ret.requiredSampleSizePerVariant)

\* C19: of two accepted requests that differ only in
\* minimumDetectableEffect, the one with the smaller effect has an
\* estimatedDays at least as large.
C19_SmallerEffectNeedsMoreDays ==
    (/\ EstimatedTwice("minimumDetectableEffect")
     /\ Lt(args.minimumDetectableEffect, prev.args.minimumDetectableEffect))
        => Ge(ret.estimatedDays, prev.ret.estimatedDays)

\* C19 restricted to baseline rates of at most one half
C19_HoldsForBaselineUpToHalf ==
    (/\ EstimatedTwice("minimumDetectableEffect")
     /\ Lt(args.minimumDetectableEffect, prev.args.minimumDetectableEffect)
     /\ Le(args.baselineConversionRate, Frac(1, 2)))
        => Ge(ret.estimatedDays, prev.ret.estimatedDays)

(***************************************************************************)
(* sqlite_query (sqliteQuery).                                             *)
(*                                                                         *)
(* db is the connection of the request: handle is "opening" from the       *)
(* constructor call until the file has been opened ("open") or could not   *)
(* be opened ("failed"), and "closed" after close has run.  The calls made *)
(* on the connection wait in queue until the handle is open and then run   *)
(* in order; executed lists the statements that have run.  ret is the      *)
(* promise: NoRet while it is pending; it is settled once.                 *)
(***************************************************************************)
SqliteTool == "sqlite_query"

DefaultDatabase == "data/Chinook.db"

NoDatabase == [given |-> FALSE, v |-> ""]

Select == <<"S", "E", "L", "E", "C", "T">>

With == <<"W", "I", "T", "H">>

\* lines 23-25
AllowedQuery_AnywhereInQuery(query) ==
    LET queryType == toUpperCase(trim(query))
    IN  includes(queryType, Select) \/ includes(queryType, With)

\* lines 23-25
AllowedQuery(query) ==
    LET queryType == toUpperCase(trim(query))
    IN  startsWith(queryType, Select) \/ startsWith(queryType, With)

\* resolve and reject settle a pending promise and do nothing afterwards
Settle(promise, outcome) == IF promise = NoRet THEN outcome ELSE promise

Rejected(message) == [ok |-> FALSE, error |-> message]

QueuedAll == [op |-> "all"]

QueuedClose == [op |-> "close"]

\* nothing more will happen on the connection
Quiescent(connection) ==
    \/ connection.handle = "failed"
    \/ connection.handle \in {"open", "closed"} /\ connection.queue = <<>>

PositionAfter(connection) == IF Quiescent(connection) THEN "done" ELSE "waiting"

\* lines 10-51: the body of the promise up to the first callback
SqliteQuery ==
    /\ pc = "call"
    /\ args.tool = SqliteTool
    /\ IF AllowedQuery(args.query)
       THEN /\ db' = [handle |-> "opening", queue |-> <<QueuedAll>>, executed |-> <<>>]
            /\ ret' = ret
       ELSE /\ db' = [handle |-> "opening", queue |-> <<QueuedClose>>, executed |-> <<>>]
            /\ ret' = Settle(ret, Rejected("Only SELECT and WITH queries are allowed for security reasons"))
    /\ pc' = "waiting"
    /\ UNCHANGED <<args, prev, sent>>

\* lines 16-21: the file has been opened, or could not be opened
OpenCompleted ==
    /\ pc = "waiting"
    /\ db.handle = "opening"
    /\ \E opened \in BOOLEAN :
           IF opened
           THEN /\ db' = [db EXCEPT !.handle = "open"]
                /\ ret' = ret
           ELSE /\ db' = [db EXCEPT !.handle = "failed"]
                /\ ret' = Settle(ret, Rejected("Failed to open database"))
    /\ pc' = PositionAfter(db')
    /\ UNCHANGED <<args, prev, sent>>

RowCounts == {0, 2}

\* lines 26-46: the statement has run and its callback is called
StatementCompleted ==
    /\ pc = "waiting"
    /\ db.handle = "open"
    /\ db.queue # <<>>
    /\ Head(db.queue) = QueuedAll
    /\ db' = [db EXCEPT !.queue = Append(Tail(db.queue), QueuedClose),
                        !.executed = Append(db.executed, args.query)]
    /\ \/ ret' = Settle(ret, Rejected("Query failed"))
       \/ \E rowCount \in RowCounts :
              ret' = Settle(ret, [ok |-> TRUE,
                                  success |-> TRUE,
                                  rowCount |-> rowCount,
                                  query |-> args.query,
                                  database |-> IF args.database.given
                                               THEN args.database.v
                                               ELSE DefaultDatabase])
    /\ pc' = PositionAfter(db')
    /\ UNCHANGED <<args, prev, sent>>

\* lines 28, 33 and 48: the queued close has run
CloseCompleted ==
    /\ pc = "waiting"
    /\ db.handle = "open"
    /\ db.queue # <<>>
    /\ Head(db.queue) = QueuedClose
    /\ db' = [db EXCEPT !.queue = Tail(db.queue), !.handle = "closed"]
    /\ pc' = PositionAfter(db')
    /\ UNCHANGED <<args, ret, prev, sent>>

LeadingSpace == {<<>>, <<" ">>, <<"\n", "\t">>}

Keywords ==
    { <<>>, Select, With, <<"s", "e", "l", "e", "c", "t">>, <<"w", "i", "t", "h">>, <<"S", "e", "L", "e", "C", "t">>, <<"s", "e", "l", "e", "c">>, <<"w", "i", "t">>,
      <<"d", "e", "l", "e", "t", "e">>, <<"D", "R", "O", "P">>, <<"i", "n", "s", "e", "r", "t">>, <<"u", "p", "d", "a", "t", "e">>, <<"p", "r", "a", "g", "m", "a">>, <<"(", "s", "e", "l", "e", "c", "t">>,
      <<"-", "-", " ", "s", "e", "l", "e", "c", "t">>, <<"e", "x", "p", "l", "a", "i", "n", " ", "s", "e", "l", "e", "c", "t">> }

QueryRest == {<<>>, <<" ", "1">>, <<" ", "t", " ", "s", "e", "l", "e", "c", "t", " ", "1">>, <<" ", "x", " ", "a", "s", " ", "(", "s", "e", "l", "e", "c", "t", " ", "1", ")", " ", "d", "e", "l", "e", "t", "e", " ", "f", "r", "o", "m", " ", "t">>}

Queries ==
    {space \o keyword \o rest :
        space \in LeadingSpace, keyword \in Keywords, rest \in QueryRest}

SqliteRequests ==
    [tool : {SqliteTool},
     query : Queries,
     database : {NoDatabase, [given |-> TRUE, v |-> "data/other.db"]}]

InitSqlite ==
    /\ pc = "call"
    /\ args \in SqliteRequests
    /\ ret = NoRet
    /\ prev = NoCall
    /\ db = NoDb
    /\ sent = <<>>

NextSqlite ==
    SqliteQuery \/ OpenCompleted \/ StatementCompleted \/ CloseCompleted

SpecSqlite == InitSqlite /\ [][NextSqlite]_vars

(***************************************************************************)
(* Properties of sqlite_query (specification SpecSqlite).                  *)
(***************************************************************************)
\* the query without the white space in front of it, in upper case
UpperCased(query) ==
    LET blank == {i \in 1..Len(query) : query[i] \in {" ", "\t", "\n", "\r"}}
        start == IF blank = 1..Len(query) THEN Len(query) + 1
                 ELSE CHOOSE i \in 1..Len(query) :
                          i \notin blank /\ \A j \in 1..(i - 1) : j \in blank
    IN  [i \in 1..(Len(query) - start + 1) |-> UpperOf(query[start + i - 1])]

StartsWithSelectOrWith(query) ==
    LET upper == UpperCased(query)
    IN  \/ Len(upper) >= 6 /\ SubSeq(upper, 1, 6) = Select
        \/ Len(upper) >= 4 /\ SubSeq(upper, 1, 4) = With

SqliteCalled == args.tool = SqliteTool /\ pc # "call"

\* C20: a statement is executed only if the trimmed, upper-cased query
\* starts with SELECT or WITH; for any other query the call is rejected
\* with the 'Only SELECT and WITH queries are allowed' error, no statement
\* is executed, and once the connection has come to rest the handle is
\* not open.
C20_OnlySelectAndWithAreExecuted ==
    /\ (args.tool = SqliteTool /\ db.executed # <<>>)
           => StartsWithSelectOrWith(args.query)
    /\ (SqliteCalled /\ ~StartsWithSelectOrWith(args.query)) =>
           /\ ret = Rejected("Only SELECT and WITH queries are allowed for security reasons")
           /\ db.executed = <<>>
           /\ pc = "done" => db.handle \in {"closed", "failed"}
           /\ db.handle = "open" => db.queue = <<QueuedClose>>

\* a DELETE was rejected and the connection that had been opened is closed
C20_Witness ==
    /\ SqliteCalled
    /\ pc = "done"
    /\ args.query = <<"d", "e", "l", "e", "t", "e", " ", "t", " ", "s", "e", "l", "e", "c", "t", " ", "1">>
    /\ ret = Rejected("Only SELECT and WITH queries are allowed for security reasons")
    /\ db = [handle |-> "closed", queue |-> <<>>, executed |-> <<>>]

(***************************************************************************)
(* Termination and range of experiment-duration-estimator (specification   *)
(* SpecDuration).                                                          *)
(***************************************************************************)
\* C25: for every input the estimator returns an estimate or throws a
\* validation error; the reflection getZScore(p) = -getZScore(1 - p) never
\* recurses without bound, in particular not for statisticalPower 0.5.
C25_EstimateOrValidationError ==
    Estimated =>
        \/ ret.ok
        \/ ValidationError(Given) # "none" /\ ret.error = ValidationError(Given)

\* C25 for every statisticalPower other than one half
C25_HoldsExceptAtOneHalf ==
    (Estimated /\ Given.statisticalPower # Frac(1, 2)) =>
        \/ ret.ok
        \/ ValidationError(Given) # "none" /\ ret.error = ValidationError(Given)

\* C26: every estimate has requiredSampleSizePerVariant >= 1,
\* totalRequiredSampleSize >= numberOfVariants and estimatedDays >= 1.
C26_EstimatesArePositive ==
    EstimateReturned =>
        /\ Ge(ret.requiredSampleSizePerVariant, Num(1))
        /\ Ge(ret.totalRequiredSampleSize, Given.numberOfVariants)
        /\ Ge(ret.estimatedDays, Num(1))

\* C26 for a variant rate of at most 1 and zAlpha + zBeta above zero
C26_HoldsForUsualInputs ==
    (/\ EstimateReturned
     /\ Le(Mul(Given.baselineConversionRate,
               Add(Num(1), Given.minimumDetectableEffect)), Num(1))
     /\ Gt(Given.statisticalPower, Frac(1, 2))) =>
        /\ Ge(ret.requiredSampleSizePerVariant, Num(1))
        /\ Ge(ret.totalRequiredSampleSize, Given.numberOfVariants)
        /\ Ge(ret.estimatedDays, Num(1))

\* the estimate for zAlpha + zBeta = 0: no sample and no day is required
C26_ZeroSample ==
    /\ EstimateReturned
    /\ Given.baselineConversionRate = Frac(5, 100)
    /\ Given.minimumDetectableEffect = Frac(1, 10)
    /\ Given.significanceLevel = Frac(4, 10)
    /\ Given.statisticalPower = Frac(2, 10)
    /\ ret.requiredSampleSizePerVariant = Num(0)
    /\ ret.estimatedDays = Num(0)

(***************************************************************************)
(* Auto-correction of flag-naming-validator (specification SpecFlag).      *)
(***************************************************************************)
\* the corrected name of the first call has been validated with the same
\* parameters
CorrectedNameValidated ==
    /\ FlagValidated
    /\ prev # NoCall
    /\ prev.ret.correctedName.given
    /\ args = [prev.args EXCEPT !.flagName = prev.ret.correctedName.v]

PatternConvention ==
    \/ ~args.namingConvention.given
    \/ args.namingConvention.v \in {"snake_case", "kebab-case", "camelCase", "PascalCase"}

Passes(result, rule) ==
    /\ result.ok
    /\ \E i \in 1..Len(result.checks) :
           result.checks[i].rule = rule /\ result.checks[i].status = "pass"

\* C29: a correctedName returned for convention snake_case, kebab-case,
\* camelCase or PascalCase with no required prefix or suffix passes the
\* 'Naming Convention' and the 'Special Characters' check when it is
\* validated with the same parameters.
C29_CorrectedNamePassesConvention ==
    (CorrectedNameValidated /\ PatternConvention /\ NoAffixRequired) =>
        /\ Passes(ret, "Naming Convention")
        /\ Passes(ret, "Special Characters")

\* C29 for names that the convention's correction changes and that start
\* with a letter
C29_HoldsForNamesStartingWithALetter ==
    (/\ CorrectedNameValidated /\ PatternConvention /\ NoAffixRequired
     /\ IsAlnum(prev.args.flagName[1]) /\ prev.args.flagName[1] \notin DigitChars
     /\ ~Passes(prev.ret, "Naming Convention")) =>
        /\ Passes(ret, "Naming Convention")
        /\ Passes(ret, "Special Characters")

(***************************************************************************)
(* api_call (apiCall).                                                     *)
(*                                                                         *)
(* The headers parameter is a text: left out, empty, not JSON, or the JSON *)
(* text of a value whose own enumerable properties are props (the header   *)
(* names and values of an object, nothing for null or a number).  sent     *)
(* lists the requests handed to fetch.                                     *)
(***************************************************************************)
ApiTool == "api_call"

NoProps == [name \in {} |-> ""]

HeadersLeftOut == [kind |-> "undefined", props |-> NoProps]

HeadersEmptyText == [kind |-> "empty", props |-> NoProps]

HeadersMalformed == [kind |-> "malformed", props |-> NoProps]

HeadersJson(props) == [kind |-> "json", props |-> props]

\* lines 64-72: the message thrown, or "none"
HeadersError(headers) ==
    IF headers.kind = "malformed" THEN "Invalid headers JSON" ELSE "none"

\* lines 64-72
parsedHeaders(headers) ==
    IF headers.kind = "json" THEN headers.props ELSE NoProps

allowedMethods == {<<"G", "E", "T">>, <<"P", "O", "S", "T">>, <<"P", "U", "T">>, <<"P", "A", "T", "C", "H">>, <<"D", "E", "L", "E", "T", "E">>}

\* line 58: method = "GET"
MethodOrDefault(method) == IF method.given THEN method.v ELSE <<"G", "E", "T">>

\* { ...first, ...second }
Spread(first, second) ==
    [name \in DOMAIN first \cup DOMAIN second |->
        IF name \in DOMAIN second THEN second[name] ELSE first[name]]

\* lines 82-92 with a body for every method
requestOptions_BodyForEveryMethod(normalizedMethod, headers, body) ==
    [method |-> normalizedMethod,
     headers |-> Spread([name \in {"Content-Type"} |-> "application/json"], headers),
     body |-> IF Truthy(body) THEN body ELSE Absent]

\* lines 82-92
requestOptions(normalizedMethod, headers, body) ==
    [method |-> normalizedMethod,
     headers |-> Spread([name \in {"Content-Type"} |-> "application/json"], headers),
     body |-> IF Truthy(body) /\ normalizedMethod \in {<<"P", "O", "S", "T">>, <<"P", "U", "T">>, <<"P", "A", "T", "C", "H">>}
              THEN body ELSE Absent]

\* lines 57-94: up to the call of fetch
ApiCall ==
    /\ pc = "call"
    /\ args.tool = ApiTool
    /\ LET normalizedMethod == toUpperCase(MethodOrDefault(args.method))
       IN  IF HeadersError(args.headers) # "none"
           THEN /\ ret' = [ok |-> FALSE, error |-> HeadersError(args.headers)]
                /\ pc' = "done"
                /\ sent' = sent
           ELSE IF normalizedMethod \notin allowedMethods
           THEN /\ ret' = [ok |-> FALSE, error |-> "Unsupported HTTP method"]
                /\ pc' = "done"
                /\ sent' = sent
           ELSE /\ sent' = Append(sent,
                               [url |-> args.url,
                                options |-> requestOptions(normalizedMethod,
                                                parsedHeaders(args.headers), args.body)])
                /\ ret' = ret
                /\ pc' = "waiting"
    /\ UNCHANGED <<args, prev, db>>

ResponseStatuses == {200, 404, 500}

\* what fetch comes back with: a failure, or a response whose body is read
\* as JSON, as text after JSON could not be read, or as text
Responses ==
    {[failed |-> TRUE, status |-> 0, read |-> "none"]}
        \cup [failed : {FALSE}, status : ResponseStatuses,
              read : {"json", "text after json", "text"}]

\* lines 94-117: fetch has settled
ResponseReceived ==
    /\ pc = "waiting"
    /\ args.tool = ApiTool
    /\ \E response \in Responses :
           ret' = IF response.failed
                  THEN [ok |-> FALSE, error |-> "API call failed"]
                  ELSE [ok |-> TRUE,
                        status |-> response.status,
                        body |-> response.read,
                        responseOk |-> response.status \in 200..299,
                        url |-> args.url]
    /\ pc' = "done"
    /\ UNCHANGED <<args, prev, db, sent>>

ApiMethods ==
    {Absent} \cup
    {Text(m) : m \in {<<"G", "E", "T">>, <<"g", "e", "t">>, <<"P", "o", "s", "t">>, <<"P", "U", "T">>, <<"p", "a", "t", "c", "h">>, <<"D", "e", "l", "e", "t", "e">>, <<"H", "E", "A", "D">>,
                      <<"o", "p", "t", "i", "o", "n", "s">>, <<"G", "E", "T", "S">>, <<>>, <<" ", "p", "o", "s", "t">>}}

ApiHeaders ==
    { HeadersLeftOut, HeadersEmptyText, HeadersMalformed,
      HeadersJson(NoProps),
      HeadersJson([name \in {"Authorization"} |-> "Bearer token"]),
      HeadersJson([name \in {"Content-Type"} |-> "text/plain"]),
      HeadersJson([name \in {"0"} |-> "x"]) }

ApiBodies == {Absent, Text(<<>>), Text(<<"{", "}">>)}

ApiRequests ==
    [tool : {ApiTool},
     url : {"https://example.com/items"},
     method : ApiMethods,
     headers : ApiHeaders,
     body : ApiBodies]

InitApi ==
    /\ pc = "call"
    /\ args \in ApiRequests
    /\ ret = NoRet
    /\ prev = NoCall
    /\ db = NoDb
    /\ sent = <<>>

NextApi == ApiCall \/ ResponseReceived

SpecApi == InitApi /\ [][NextApi]_vars

(***************************************************************************)
(* Properties of api_call (specification SpecApi).                         *)
(***************************************************************************)
HeadersParsed == args.headers.kind \in {"undefined", "empty", "json"}

\* the method in upper case, GET when none is given
UpperCasedMethod ==
    IF args.method.given
    THEN [i \in 1..Len(args.method.v) |-> UpperOf(args.method.v[i])]
    ELSE <<"G", "E", "T">>

MethodSupported ==
    UpperCasedMethod \in {<<"G", "E", "T">>, <<"P", "O", "S", "T">>, <<"P", "U", "T">>, <<"P", "A", "T", "C", "H">>, <<"D", "E", "L", "E", "T", "E">>}

\* C21: a request is sent only after the headers have parsed and the
\* upper-cased method is one of GET, POST, PUT, PATCH, DELETE; when a check
\* fails the call throws and nothing is sent; a request that is sent has a
\* body only for POST, PUT or PATCH.
C21_RequestOnlyAfterChecks ==
    args.tool = ApiTool =>
        /\ sent # <<>> => (pc # "call" /\ HeadersParsed /\ MethodSupported)
        /\ (pc # "call" /\ ~(HeadersParsed /\ MethodSupported)) =>
               /\ pc = "done"
               /\ ~ret.ok
               /\ ret.error \in {"Invalid headers JSON", "Unsupported HTTP method"}
               /\ sent = <<>>
        /\ \A i \in 1..Len(sent) :
               sent[i].options.body.given =>
                   sent[i].options.method \in {<<"P", "O", "S", "T">>, <<"P", "U", "T">>, <<"P", "A", "T", "C", "H">>}
        /\ Len(sent) <= 1

\* a PATCH given in lower case was sent with its body and answered
C21_Witness ==
    /\ args.tool = ApiTool
    /\ pc = "done"
    /\ args.method = Text(<<"p", "a", "t", "c", "h">>)
    /\ args.headers = HeadersJson([name \in {"Authorization"} |-> "Bearer token"])
    /\ ret.ok
    /\ Len(sent) = 1
    /\ sent[1].options.method = <<"P", "A", "T", "C", "H">>
    /\ sent[1].options.body = Text(<<"{", "}">>)
    /\ sent[1].options.headers["Content-Type"] = "application/json"

(***************************************************************************)
(* flag-creator (flagCreator, createFlagInOptimizely).                     *)
(*                                                                         *)
(* variables and variations are texts: left out, empty, or what JSON.parse *)
(* makes of them (JMalformed, JOther, JArray).  An element of an array is  *)
(* an object with the properties the code reads (an empty word for a       *)
(* property that is missing or empty), or null, or a number.  Names that   *)
(* the code only compares are words; flagName, which it rewrites, is a     *)
(* sequence of characters.  The two environment variables are part of the  *)
(* request.                                                                *)
(***************************************************************************)
FlagCreatorTool == "flag-creator"

JLeftOut == [json |-> "undefined", t |-> "none", elems |-> <<>>]

JEmptyText == [json |-> "empty", t |-> "none", elems |-> <<>>]

NoWord == [given |-> FALSE, v |-> ""]

Word(w) == [given |-> TRUE, v |-> w]

\* a || b for two optional words
OrElse(first, second) == IF first.given /\ first.v # "" THEN first ELSE second

Variable(key, type, hasDefault) ==
    [t |-> "object", key |-> key, type |-> type, name |-> "", hasDefault |-> hasDefault]

Variation(key, name) ==
    [t |-> "object", key |-> key, type |-> "", name |-> name, hasDefault |-> FALSE]

\* an element that is no object: null or a number
Element(t) == [t |-> t, key |-> "", type |-> "", name |-> "", hasDefault |-> FALSE]

ErrorAbout(message, subject) == [message |-> message, subject |-> subject]

validTypes == {"boolean", "string", "integer", "double", "json"}

\* lines 87-99: the errors pushed for the elements from index idx on; reading
\* a property of null throws, which ends the loop with the error of the
\* catch block
RECURSIVE VariableErrors(_, _)
VariableErrors(elems, idx) ==
    IF idx > Len(elems) THEN <<>>
    ELSE LET v == elems[idx]
         IN  IF v.t = "null"
             THEN <<ErrorAbout("Invalid variables JSON", "TypeError")>>
             ELSE (IF v.key = "" \/ v.type = "" \/ ~v.hasDefault
                   THEN <<ErrorAbout("Variable must have: key, type, and defaultValue", ToString(idx - 1))>>
                   ELSE <<>>)
                  \o (IF v.type \notin validTypes
                      THEN <<ErrorAbout("Variable has invalid type", v.key)>>
                      ELSE <<>>)
                  \o VariableErrors(elems, idx + 1)

\* lines 125-131
RECURSIVE VariationErrors(_, _)
VariationErrors(elems, idx) ==
    IF idx > Len(elems) THEN <<>>
    ELSE LET v == elems[idx]
         IN  IF v.t = "null"
             THEN <<ErrorAbout("Invalid variations JSON", "TypeError")>>
             ELSE (IF v.key = "" \/ v.name = ""
                   THEN <<ErrorAbout("Variation must have: key and name properties", ToString(idx - 1))>>
                   ELSE <<>>)
                  \o VariationErrors(elems, idx + 1)

\* lines 78-114 and 116-151: the value parsed from the text and the errors
\* pushed; a value that is no array has no forEach, which the catch block
\* reports as well; what is "variables" or "variations"
Parsed(text, what, default) ==
    IF text.json \in {"undefined", "empty"}
    THEN [value |-> JArray(default), errors |-> <<>>]
    ELSE IF text.json = "malformed"
    THEN [value |-> JArray(<<>>),
          errors |-> <<ErrorAbout("Invalid " \o what \o " JSON", "SyntaxError")>>]
    ELSE IF text.t # "array"
    THEN [value |-> text,
          errors |-> <<ErrorAbout(what \o " must be a JSON array", ""),
                       ErrorAbout("Invalid " \o what \o " JSON", "TypeError")>>]
    ELSE [value |-> text,
          errors |-> IF what = "variables" THEN VariableErrors(text.elems, 1)
                     ELSE VariationErrors(text.elems, 1)]

DefaultVariables == <<Variable("enabled", "boolean", TRUE)>>

DefaultVariations == <<Variation("off", "Off"), Variation("on", "On")>>

\* line 154: defaultVariation || parsedVariations[0]?.key || "off"; index 0
\* of null cannot be read
DefaultVar(defaultVariation, parsedVariations) ==
    IF defaultVariation.given /\ defaultVariation.v # "" THEN defaultVariation.v
    ELSE IF parsedVariations.t = "null" THEN "TypeError"
    ELSE IF parsedVariations.t = "array" /\ Len(parsedVariations.elems) > 0
            /\ parsedVariations.elems[1].key # ""
    THEN parsedVariations.elems[1].key
    ELSE "off"

\* line 157: parsedVariations.find((v) => v.key === defaultVar): "found",
\* "none", or "TypeError" when the value has no find or a null element is
\* reached before a match
Find(parsedVariations, defaultVar) ==
    IF parsedVariations.t # "array" THEN "TypeError"
    ELSE LET elems == parsedVariations.elems
             matches == {i \in 1..Len(elems) : elems[i].t # "null" /\ elems[i].key = defaultVar}
             nulls == {i \in 1..Len(elems) : elems[i].t = "null"}
         IN  IF \E i \in nulls : \A j \in matches : j > i THEN "TypeError"
             ELSE IF matches # {} THEN "found"
             ELSE "none"

\* lines 71-76
generatedKey(flagKey, flagName) ==
    IF Truthy(flagKey) THEN flagKey.v
    ELSE StripEnds(ReplaceRuns(toLowerCase(flagName), LowerAlnumChars, "_"), {"_"})

\* lines 156-161
DefaultVariationErrors(found, defaultVar) ==
    IF found = "none"
    THEN <<ErrorAbout("Default variation not found in variations list", defaultVar)>>
    ELSE <<>>

\* lines 164 and 186: no errors, and apiKey && projId
CallsApi(errors, apiKey, projId) ==
    /\ errors = <<>>
    /\ apiKey.given /\ apiKey.v # "" /\ projId.given /\ projId.v # ""

\* lines 47-183: everything up to the decision to call the API
Validated(parameters) ==
    LET apiKey == OrElse(parameters.optimizelyApiKey, parameters.env.OPTIMIZELY_API_KEY)
        projId == OrElse(parameters.projectId, parameters.env.OPTIMIZELY_PROJECT_ID)
        variables == Parsed(parameters.variables, "variables", DefaultVariables)
        variations == Parsed(parameters.variations, "variations", DefaultVariations)
        defaultVar == DefaultVar(parameters.defaultVariation, variations.value)
        found == Find(variations.value, defaultVar)
        errors == variables.errors \o variations.errors
                      \o DefaultVariationErrors(found, defaultVar)
    IN  [threw |-> IF Len(trim(parameters.flagName)) = 0
                   THEN "flagName is required and cannot be empty"
                   ELSE IF defaultVar = "TypeError" \/ found = "TypeError"
                   THEN "TypeError"
                   ELSE "none",
         errors |-> errors,
         callsApi |-> CallsApi(errors, apiKey, projId),
         apiKey |-> apiKey,
         projId |-> projId,
         result |->
            [ok |-> TRUE,
             success |-> errors = <<>>,
             flagKey |-> generatedKey(parameters.flagKey, parameters.flagName),
             flagName |-> parameters.flagName,
             flagId |-> NoWord,
             message |-> IF errors = <<>>
                         THEN "Flag configuration validated successfully"
                         ELSE "Flag creation failed due to validation errors",
             details |->
                [variations |-> variations.value.elems,
                 variables |-> variables.value.elems,
                 environment |-> IF parameters.environment.given
                                 THEN parameters.environment.v ELSE "development",
                 defaultVariation |-> defaultVar],
             errors |-> errors]]

\* lines 44-267 up to the call of fetch in createFlagInOptimizely (line 304)
FlagCreator ==
    /\ pc = "call"
    /\ args.tool = FlagCreatorTool
    /\ LET checked == Validated(args)
       IN  IF checked.threw # "none"
           THEN /\ ret' = [ok |-> FALSE, error |-> checked.threw]
                /\ pc' = "done"
                /\ sent' = sent
           ELSE IF checked.callsApi
           THEN /\ sent' = Append(sent,
                               [url |-> <<"https://api.optimizely.com/flags/v1/projects/",
                                          checked.projId.v, "/flags">>,
                                options |->
                                    [method |-> "POST",
                                     authorization |-> checked.apiKey.v,
                                     body |-> [key |-> checked.result.flagKey,
                                               name |-> args.flagName]]])
                /\ ret' = ret
                /\ pc' = "waiting"
           ELSE /\ ret' = checked.result
                /\ pc' = "done"
                /\ sent' = sent
    /\ UNCHANGED <<args, prev, db>>

\* what the API answers: no answer, an error status, or the created flag
\* with or without an id
ApiOutcomes == {"failed", "error status", "created", "created without id"}

\* lines 199-244 and 304-325: fetch has settled
OptimizelyResponded ==
    /\ pc = "waiting"
    /\ args.tool = FlagCreatorTool
    /\ \E outcome \in ApiOutcomes :
           LET result == Validated(args).result
           IN  ret' = IF outcome \in {"failed", "error status"}
                      THEN [result EXCEPT
                               !.success = FALSE,
                               !.message = "Failed to create flag in Optimizely",
                               !.errors = <<ErrorAbout(outcome, ""),
                                            ErrorAbout("Check your API key and project ID", ""),
                                            ErrorAbout("Ensure you have permission to create flags", "")>>]
                      ELSE [result EXCEPT
                               !.message = "Flag created successfully in Optimizely",
                               !.flagId = IF outcome = "created" THEN Word("id")
                                          ELSE Word("key")]
    /\ pc' = "done"
    /\ UNCHANGED <<args, prev, db, sent>>

\* the texts given for variables
VariablesTexts ==
    {JLeftOut, JEmptyText, JMalformed, JOther("null"), JOther("object"),
     JArray(<<>>),
     JArray(<<Variable("enabled", "boolean", TRUE), Variable("title", "string", TRUE)>>),
     JArray(<<Variable("size", "float", TRUE)>>),
     JArray(<<Variable("", "boolean", FALSE)>>),
     JArray(<<Element("null")>>)}

\* the texts given for variations
VariationsTexts ==
    {JLeftOut, JEmptyText, JMalformed, JOther("null"), JOther("object"),
     JOther("number"),
     JArray(<<>>),
     JArray(<<Variation("off", "Off"), Variation("on", "On")>>),
     JArray(<<Variation("a", "A")>>),
     JArray(<<Variation("", "Unnamed"), Variation("on", "On")>>),
     JArray(<<Variation("a", "A"), Variation("b", "")>>),
     JArray(<<Variation("a", "A"), Element("null")>>),
     JArray(<<Element("null"), Variation("a", "A")>>),
     JArray(<<Element("number"), Variation("a", "A")>>)}

DefaultVariationWords == {NoWord, Word(""), Word("on"), Word("a"), Word("missing")}

CreatorFlagNames ==
    {<<>>, <<" ">>, <<"N", "e", "w", " ", "C", "h", "e", "c", "k", "o", "u", "t", " ", "F", "l", "o", "w">>, <<"d", "a", "r", "k", "_", "m", "o", "d", "e">>, <<"!", "!", "!">>, <<"_", "_", "a", "_", "_">>, <<"A">>, <<"-", "9", "-">>,
     <<"a", " ", " ", "b">>, <<" ", "B", "e", "t", "a", "!", " ", "(", "v", "2", ")", " ">>}

CreatorFlagKeys == {Absent, Text(<<>>), Text(<<"m", "y", "_", "k", "e", "y">>)}

NoEnv == [OPTIMIZELY_API_KEY |-> NoWord, OPTIMIZELY_PROJECT_ID |-> NoWord]

Environments ==
    [OPTIMIZELY_API_KEY : {NoWord, Word("env-key")},
     OPTIMIZELY_PROJECT_ID : {NoWord, Word("env-project")}]

\* requests that vary what is validated
ValidationRequests ==
    [tool : {FlagCreatorTool},
     flagName : {<<"N", "e", "w", " ", "C", "h", "e", "c", "k", "o", "u", "t", " ", "F", "l", "o", "w">>, <<"!", "!", "!">>},
     flagKey : {Absent, Text(<<"m", "y", "_", "k", "e", "y">>)},
     variables : VariablesTexts,
     variations : VariationsTexts,
     defaultVariation : DefaultVariationWords,
     environment : {NoWord},
     optimizelyApiKey : {NoWord, Word("key")},
     projectId : {Word("project")},
     env : {NoEnv}]

\* requests that vary where the credentials come from
CredentialRequests ==
    [tool : {FlagCreatorTool},
     flagName : {<<"N", "e", "w", " ", "C", "h", "e", "c", "k", "o", "u", "t", " ", "F", "l", "o", "w">>},
     flagKey : {Absent},
     variables : {JLeftOut, JMalformed},
     variations : {JLeftOut, JArray(<<Variation("a", "A")>>)},
     defaultVariation : {NoWord, Word("missing")},
     environment : {NoWord, Word("production")},
     optimizelyApiKey : {NoWord, Word(""), Word("key")},
     projectId : {NoWord, Word(""), Word("project")},
     env : Environments]

\* requests that vary the name and the key
NameRequests ==
    [tool : {FlagCreatorTool},
     flagName : CreatorFlagNames,
     flagKey : CreatorFlagKeys,
     variables : {JLeftOut},
     variations : {JLeftOut},
     defaultVariation : {NoWord},
     environment : {NoWord},
     optimizelyApiKey : {NoWord, Word("key")},
     projectId : {Word("project")},
     env : {NoEnv}]

CreatorRequests == ValidationRequests \cup CredentialRequests \cup NameRequests

InitCreator ==
    /\ pc = "call"
    /\ args \in CreatorRequests
    /\ ret = NoRet
    /\ prev = NoCall
    /\ db = NoDb
    /\ sent = <<>>

NextCreator == FlagCreator \/ OptimizelyResponded

SpecCreator == InitCreator /\ [][NextCreator]_vars

\* the call has returned a result (it has not thrown)
Returned == pc = "done" /\ args.tool = FlagCreatorTool /\ ret.ok

Threw == pc = "done" /\ args.tool = FlagCreatorTool /\ ~ret.ok

ApiCalled == Len(sent) > 0

\* C23: when flagKey is not provided, the returned flagKey is, for every
\* accepted (non-blank) flagName, a non-empty string of lowercase
\* alphanumeric words joined by single underscores, with no underscore at
\* either end.
C23_GeneratedKeyIsSnakeCase ==
    (Returned /\ ~Truthy(args.flagKey)) =>
        /\ Len(ret.flagKey) > 0
        /\ \A w \in 1..Len(split(ret.flagKey, "_")) :
               LET word == split(ret.flagKey, "_")[w]
               IN  /\ Len(word) > 0
                   /\ \A i \in 1..Len(word) : word[i] \in LowerAlnumChars

\* C23 for names with a letter or a digit
C23_HoldsForNamesWithALetterOrDigit ==
    (Returned /\ ~Truthy(args.flagKey)
        /\ \E i \in 1..Len(args.flagName) : args.flagName[i] \in AlnumChars) =>
        /\ Len(ret.flagKey) > 0
        /\ \A w \in 1..Len(split(ret.flagKey, "_")) :
               LET word == split(ret.flagKey, "_")[w]
               IN  /\ Len(word) > 0
                   /\ \A i \in 1..Len(word) : word[i] \in LowerAlnumChars

\* a name of punctuation only was accepted and gave an empty key
C23_EmptyKey ==
    Returned /\ ~Truthy(args.flagKey) /\ args.flagName = <<"!", "!", "!">> /\ ret.flagKey = <<>>

\* apiKey && projId (lines 60-61 and 186), from the request as it was made
CredentialsAvailable ==
    /\ \/ args.optimizelyApiKey.given /\ args.optimizelyApiKey.v # ""
       \/ args.env.OPTIMIZELY_API_KEY.given /\ args.env.OPTIMIZELY_API_KEY.v # ""
    /\ \/ args.projectId.given /\ args.projectId.v # ""
       \/ args.env.OPTIMIZELY_PROJECT_ID.given /\ args.env.OPTIMIZELY_PROJECT_ID.v # ""

\* the validation of the request pushed at least one error
ValidationErrors ==
    /\ args.tool = FlagCreatorTool
    /\ Len(trim(args.flagName)) > 0
    /\ Validated(args).errors # <<>>

\* the call is over: it has returned or thrown
Finished == pc = "done" /\ args.tool = FlagCreatorTool

\* the API is called only when there are no validation errors and the
\* credentials are available
ApiCalledOnlyWhenValid ==
    ApiCalled => (Len(trim(args.flagName)) > 0 /\ ~ValidationErrors /\ CredentialsAvailable)

\* without credentials a valid request returns success = true, the validated
\* configuration and no flagId, and the API is not called
ValidatedOnlyWithoutCredentials ==
    (Finished /\ Len(trim(args.flagName)) > 0 /\ ~ValidationErrors /\ ~CredentialsAvailable) =>
        /\ Returned
        /\ ret.success
        /\ ~ret.flagId.given
        /\ ret.details = Validated(args).result.details
        /\ ~ApiCalled

\* C22: flagCreator calls the Optimizely API only when the input produced no
\* validation errors and both an API key and a project id are available
\* (parameters or environment); with validation errors it returns
\* success = false without calling the API, and without credentials it
\* returns success = true with the validated configuration and no flagId,
\* again without calling the API.
C22_ApiOnlyWhenValidAndCredentialed ==
    /\ ApiCalledOnlyWhenValid
    /\ (Finished /\ ValidationErrors) => (Returned /\ ~ret.success /\ ~ApiCalled)
    /\ ValidatedOnlyWithoutCredentials

\* C22 without the requirement that a request with validation errors returns
C22_HoldsWhereTheCallReturns ==
    /\ ApiCalledOnlyWhenValid
    /\ (Returned /\ ValidationErrors) => (~ret.success /\ ~ApiCalled)
    /\ ValidatedOnlyWithoutCredentials

\* a request with validation errors has thrown instead of returning
C22_ThrewOnValidationErrors ==
    Threw /\ ValidationErrors /\ ret.error = "TypeError"

\* the keys of the variations of the request: those of the default variations
\* when none are given, those of the objects of a JSON array otherwise
VariationKeys ==
    IF args.variations.json \in {"undefined", "empty"}
    THEN {DefaultVariations[i].key : i \in 1..Len(DefaultVariations)}
    ELSE {args.variations.elems[i].key : i \in 1..Len(args.variations.elems)} \ {""}

\* the variations of the request are left out or a JSON array of objects
VariationsAreObjects ==
    \/ args.variations.json \in {"undefined", "empty", "malformed"}
    \/ /\ args.variations.t = "array"
       /\ \A i \in 1..Len(args.variations.elems) : args.variations.elems[i].t = "object"

DefaultVariationGiven == args.defaultVariation.given /\ args.defaultVariation.v # ""

\* with success = true the default variation is the key of a variation, and
\* the key of the first one when none was given
SuccessHasDefaultVariation ==
    (Returned /\ ret.success) =>
        /\ \E i \in 1..Len(ret.details.variations) :
               ret.details.variations[i].key = ret.details.defaultVariation
        /\ ~DefaultVariationGiven =>
               ret.details.defaultVariation = ret.details.variations[1].key

\* C24: whenever flagCreator returns success = true, details.defaultVariation
\* is the key of one of the variations in details.variations; when
\* defaultVariation is not given it is the key of the first variation, and a
\* defaultVariation that matches no variation key yields success = false with
\* an error naming it.
C24_DefaultVariationIsAVariation ==
    /\ SuccessHasDefaultVariation
    /\ (Finished /\ Len(trim(args.flagName)) > 0 /\ DefaultVariationGiven
            /\ args.defaultVariation.v \notin VariationKeys) =>
           /\ Returned
           /\ ~ret.success
           /\ \E i \in 1..Len(ret.errors) : ret.errors[i].subject = args.defaultVariation.v

\* C24 for variations that are left out or a JSON array of objects
C24_HoldsForArraysOfObjects ==
    /\ SuccessHasDefaultVariation
    /\ (Finished /\ Len(trim(args.flagName)) > 0 /\ DefaultVariationGiven
            /\ VariationsAreObjects
            /\ args.defaultVariation.v \notin VariationKeys) =>
           /\ Returned
           /\ ~ret.success
           /\ \E i \in 1..Len(ret.errors) : ret.errors[i].subject = args.defaultVariation.v

\* a default variation that matches no key of an array with a null element
\* made the call throw
C24_ThrewOnUnknownDefault ==
    /\ Threw
    /\ ret.error = "TypeError"
    /\ args.variations = JArray(<<Element("null"), Variation("a", "A")>>)
    /\ args.defaultVariation = Word("missing")

\* the text is valid JSON but no array
NoArray(text) == text.json = "parsed" /\ text.t # "array"

HasError(message) ==
    \E i \in 1..Len(ret.errors) : ret.errors[i].message = message

\* C27: when variations (or variables) is valid JSON but not an array (an
\* object, null), flagCreator does not throw: it returns success = false
\* with errors containing 'variations must be a JSON array' (respectively
\* 'variables must be a JSON array').
C27_NonArrayIsReported ==
    /\ (Finished /\ Len(trim(args.flagName)) > 0 /\ NoArray(args.variations)) =>
           (Returned /\ ~ret.success /\ HasError("variations must be a JSON array"))
    /\ (Finished /\ Len(trim(args.flagName)) > 0 /\ NoArray(args.variables)) =>
           (Returned /\ ~ret.success /\ HasError("variables must be a JSON array"))

\* C27 for variables, with variations that are left out or an array of objects
C27_HoldsForVariables ==
    (Finished /\ Len(trim(args.flagName)) > 0 /\ NoArray(args.variables)
        /\ VariationsAreObjects) =>
        (Returned /\ ~ret.success /\ HasError("variables must be a JSON array"))

\* variations that are a JSON object made the call throw
C27_ThrewOnObject ==
    Threw /\ ret.error = "TypeError" /\ args.variations = JOther("object")

\* variables that are JSON null were reported
C27_VariablesReported ==
    /\ Returned
    /\ args.variables = JOther("null")
    /\ ~ret.success
    /\ HasError("variables must be a JSON array")

(***************************************************************************)
(* experiment-overlap-checker (experimentOverlapChecker).                  *)
(*                                                                         *)
(* An experiment is a record of the properties the code reads: an empty    *)
(* word is a property that is missing or empty, Undefined a number that is *)
(* missing, and the two lists are optional.  Numbers are exact.            *)
(***************************************************************************)
OverlapTool == "experiment-overlap-checker"

NoList == [given |-> FALSE, v |-> <<>>]

List(items) == [given |-> TRUE, v |-> items]

Experiment(name, audienceSize, trafficAllocation, primaryMetric, affectedPages, targetingRules) ==
    [id |-> IF name = "" THEN "" ELSE "exp-" \o name,
     name |-> name,
     audienceSize |-> audienceSize,
     trafficAllocation |-> trafficAllocation,
     primaryMetric |-> primaryMetric,
     affectedPages |-> affectedPages,
     targetingRules |-> targetingRules]

\* lines 626-636: the first experiment that fails the validation, 0 if none
InvalidExperiment(experiments) ==
    LET fails(exp) ==
            \/ exp.id = "" \/ exp.name = ""
            \/ exp.audienceSize = Undefined \/ Le(exp.audienceSize, Num(0))
            \/ exp.trafficAllocation = Undefined
            \/ Lt(exp.trafficAllocation, Num(0)) \/ Gt(exp.trafficAllocation, Num(100))
        failing == {i \in 1..Len(experiments) : fails(experiments[i])}
    IN  IF failing = {} THEN 0 ELSE CHOOSE i \in failing : \A j \in failing : i <= j

\* (exp.audienceSize * exp.trafficAllocation) / 100
Reach(exp) == Div(Mul(exp.audienceSize, exp.trafficAllocation), Num(100))

\* Math.max(...experiments.map((e) => e.audienceSize))
RECURSIVE MaxAudienceSize(_)
MaxAudienceSize(experiments) ==
    IF Len(experiments) = 1 THEN experiments[1].audienceSize
    ELSE MathMax(experiments[1].audienceSize, MaxAudienceSize(Tail(experiments)))

\* totalAudienceSize || Math.max(...)
AudienceOrMax(experiments, totalAudienceSize) ==
    IF totalAudienceSize # Undefined /\ totalAudienceSize # Num(0)
    THEN totalAudienceSize
    ELSE MaxAudienceSize(experiments)

\* lines 712-733
calculateOverlap(experiments, totalAudienceSize) ==
    IF Len(experiments) = 1 THEN Num(0)
    ELSE LET totalReach == Sum([i \in 1..Len(experiments) |-> Reach(experiments[i])])
             maxAudience == AudienceOrMax(experiments, totalAudienceSize)
         IN  IF Le(totalReach, maxAudience) THEN Num(0)
             ELSE Sub(totalReach, maxAudience)

\* the items of the first list that the second list includes
RECURSIVE Shared(_, _)
Shared(first, second) ==
    IF first = <<>> THEN <<>>
    ELSE (IF \E i \in 1..Len(second) : second[i] = first[1] THEN <<first[1]>> ELSE <<>>)
         \o Shared(Tail(first), second)

\* lines 817-828: the rules of both experiments, an empty list for null
checkTargetingOverlap(exp1, exp2) ==
    IF ~exp1.targetingRules.given \/ ~exp2.targetingRules.given THEN <<>>
    ELSE Shared(exp1.targetingRules.v, exp2.targetingRules.v)

\* lines 749-810: the entry of one pair
Pair(exp1, exp2) ==
    LET overlapPercentage ==
            Mul(Div(MathMin(Reach(exp1), Reach(exp2)),
                    MathMin(exp1.audienceSize, exp2.audienceSize)), Num(100))
        targeting == checkTargetingOverlap(exp1, exp2) # <<>>
        metric == /\ exp1.primaryMetric # "" /\ exp2.primaryMetric # ""
                  /\ exp1.primaryMetric = exp2.primaryMetric
        pages == /\ exp1.affectedPages.given /\ exp2.affectedPages.given
                 /\ Shared(exp1.affectedPages.v, exp2.affectedPages.v) # <<>>
        afterTargeting == IF targeting THEN "Medium" ELSE "Low"
        afterMetric == IF metric THEN "High" ELSE afterTargeting
        afterPages == IF pages THEN (IF afterMetric = "High" THEN "High" ELSE "Medium")
                      ELSE afterMetric
    IN  [experiment1 |-> exp1.name,
         experiment2 |-> exp2.name,
         overlapPercentage |-> roundTo(overlapPercentage, 2),
         conflictRisk |-> IF Gt(overlapPercentage, Num(50)) THEN "High"
                          ELSE IF Gt(overlapPercentage, Num(20)) /\ afterPages = "Low"
                          THEN "Medium"
                          ELSE afterPages]

\* lines 735-815: the pairs (i, j) with i < j, from pair (i, j) on
RECURSIVE PairsFrom(_, _, _)
PairsFrom(experiments, i, j) ==
    IF i >= Len(experiments) THEN <<>>
    ELSE IF j > Len(experiments) THEN PairsFrom(experiments, i + 1, i + 2)
    ELSE <<Pair(experiments[i], experiments[j])>> \o PairsFrom(experiments, i, j + 1)

calculatePairwiseOverlap(experiments) == PairsFrom(experiments, 1, 2)

\* a Map filled by pushing the name of each entry to the list of its key:
\* its groups in the order of insertion
RECURSIVE Grouped(_, _)
Grouped(entries, groups) ==
    IF entries = <<>> THEN groups
    ELSE LET entry == entries[1]
             at == {g \in 1..Len(groups) : groups[g].key = entry.key}
         IN  Grouped(Tail(entries),
                     IF at = {}
                     THEN Append(groups, [key |-> entry.key, names |-> <<entry.name>>])
                     ELSE [g \in 1..Len(groups) |->
                              IF g \in at
                              THEN [groups[g] EXCEPT !.names = Append(@, entry.name)]
                              ELSE groups[g]])

\* the conflicts of the groups with more than one name
RECURSIVE GroupConflicts(_, _, _)
GroupConflicts(groups, type, severity) ==
    IF groups = <<>> THEN <<>>
    ELSE (IF Len(groups[1].names) > 1
          THEN <<[type |-> type, severity |-> severity,
                  affectedExperiments |-> groups[1].names]>>
          ELSE <<>>)
         \o GroupConflicts(Tail(groups), type, severity)

\* lines 843-850
RECURSIVE MetricEntries(_)
MetricEntries(experiments) ==
    IF experiments = <<>> THEN <<>>
    ELSE (IF experiments[1].primaryMetric # ""
          THEN <<[key |-> experiments[1].primaryMetric, name |-> experiments[1].name]>>
          ELSE <<>>)
         \o MetricEntries(Tail(experiments))

\* lines 865-872: one entry for every page of every experiment
RECURSIVE PageEntries(_)
PageEntries(experiments) ==
    IF experiments = <<>> THEN <<>>
    ELSE [p \in 1..Len(experiments[1].affectedPages.v) |->
             [key |-> experiments[1].affectedPages.v[p], name |-> experiments[1].name]]
         \o PageEntries(Tail(experiments))

\* the order of the rule names under sort()
RuleNames == <<"US", "mobile", "returning">>

\* rules.sort()
SortRules(rules) ==
    LET rank(r) == CHOOSE i \in 1..Len(RuleNames) : RuleNames[i] = r
        ranks == [i \in 1..Len(rules) |-> rank(rules[i])]
        before(i) == Cardinality({j \in 1..Len(rules) :
                                     ranks[j] < ranks[i] \/ (ranks[j] = ranks[i] /\ j < i)})
    IN  [p \in 1..Len(rules) |-> rules[CHOOSE i \in 1..Len(rules) : before(i) = p - 1]]

\* lines 901-907: exp.targetingRules?.sort().join("|") || "default"
RECURSIVE TargetingEntries(_)
TargetingEntries(experiments) ==
    IF experiments = <<>> THEN <<>>
    ELSE <<[key |-> IF experiments[1].targetingRules.v = <<>> THEN <<"default">>
                    ELSE SortRules(experiments[1].targetingRules.v),
            name |-> experiments[1].name]>>
         \o TargetingEntries(Tail(experiments))

\* lines 830-921
detectConflicts(experiments, overlapTolerance) ==
    LET totalTraffic == Sum([i \in 1..Len(experiments) |-> experiments[i].trafficAllocation])
        targeting == Grouped(TargetingEntries(experiments), <<>>)
    IN  GroupConflicts(Grouped(MetricEntries(experiments), <<>>), "metric", "Critical")
        \o GroupConflicts(Grouped(PageEntries(experiments), <<>>), "page", "Error")
        \o (IF Gt(totalTraffic, Num(100))
            THEN <<[type |-> "audience", severity |-> "Warning",
                    affectedExperiments |->
                        [i \in 1..Len(experiments) |-> experiments[i].name]]>>
            ELSE <<>>)
        \o GroupConflicts(SelectSeq(targeting, LAMBDA g : g.key # <<"default">>),
                          "targeting", "Warning")

\* lines 923-951
assessRiskLevel(overlapPercentage, conflicts, pairwiseAnalysis, overlapTolerance) ==
    IF \E c \in 1..Len(conflicts) : conflicts[c].severity = "Critical" THEN "Critical"
    ELSE IF \E p \in 1..Len(pairwiseAnalysis) : pairwiseAnalysis[p].conflictRisk = "High"
    THEN "High"
    ELSE IF \E c \in 1..Len(conflicts) : conflicts[c].severity = "Error" THEN "High"
    ELSE IF Gt(overlapPercentage, Mul(overlapTolerance, Num(2))) THEN "High"
    ELSE IF Gt(overlapPercentage, overlapTolerance) THEN "Medium"
    ELSE IF \E p \in 1..Len(pairwiseAnalysis) : pairwiseAnalysis[p].conflictRisk = "Medium"
    THEN "Medium"
    ELSE "Low"

\* lines 605-710
experimentOverlapChecker(parameters) ==
    LET text == parameters.experiments
        experiments == text.elems
        overlapTolerance == IF parameters.overlapTolerance = Undefined THEN Num(20)
                            ELSE parameters.overlapTolerance
    IN  IF text.json = "malformed"
        THEN [ok |-> FALSE, error |-> "Invalid experiments format: SyntaxError"]
        ELSE IF text.t # "array"
        THEN [ok |-> FALSE, error |-> "Invalid experiments format: experiments must be a JSON array"]
        ELSE IF Len(experiments) = 0
        THEN [ok |-> FALSE, error |-> "Invalid experiments format: experiments array cannot be empty"]
        ELSE IF InvalidExperiment(experiments) # 0
        THEN [ok |-> FALSE, error |-> "Invalid experiments format: experiment is not valid"]
        ELSE IF Lt(overlapTolerance, Num(0)) \/ Gt(overlapTolerance, Num(100))
        THEN [ok |-> FALSE, error |-> "overlapTolerance must be between 0 and 100"]
        ELSE LET estimatedOverlap == calculateOverlap(experiments, parameters.totalAudienceSize)
                 overlapPercentage ==
                     Mul(Div(estimatedOverlap,
                             AudienceOrMax(experiments, parameters.totalAudienceSize)),
                         Num(100))
                 pairwiseAnalysis == calculatePairwiseOverlap(experiments)
                 conflicts == detectConflicts(experiments, overlapTolerance)
                 riskLevel == assessRiskLevel(overlapPercentage, conflicts,
                                              pairwiseAnalysis, overlapTolerance)
             IN  [ok |-> TRUE,
                  summary |->
                     [totalExperiments |-> Len(experiments),
                      estimatedOverlap |-> MathRound(estimatedOverlap),
                      overlapPercentage |-> roundTo(overlapPercentage, 2),
                      riskLevel |-> riskLevel,
                      canRunConcurrently |->
                          \/ riskLevel = "Low"
                          \/ /\ riskLevel = "Medium"
                             /\ \A c \in 1..Len(conflicts) :
                                    conflicts[c].severity # "Critical"],
                  pairwiseAnalysis |-> pairwiseAnalysis,
                  conflicts |-> conflicts]

ExperimentOverlapChecker ==
    /\ pc = "call"
    /\ args.tool = OverlapTool
    /\ ret' = experimentOverlapChecker(args)
    /\ pc' = "done"
    /\ UNCHANGED <<args, prev, db, sent>>

PageLists ==
    {NoList, List(<<>>), List(<<"home">>), List(<<"cart">>), List(<<"home", "cart">>),
     List(<<"home", "home">>)}

RuleLists == {NoList, List(<<"US">>), List(<<"mobile", "US">>)}

Metrics == {"", "conversion", "revenue"}

\* one experiment, valid or not
SingleExperiments ==
    {Experiment(name, audienceSize, trafficAllocation, primaryMetric, affectedPages, targetingRules) :
        name \in {"A", ""},
        audienceSize \in {Num(1000), Num(0), Undefined},
        trafficAllocation \in {Num(0), Num(30), Num(100), Num(101)},
        primaryMetric \in Metrics,
        affectedPages \in PageLists,
        targetingRules \in RuleLists}

FirstExperiments ==
    {Experiment("A", audienceSize, trafficAllocation, primaryMetric, affectedPages, targetingRules) :
        audienceSize \in {Num(1000)},
        trafficAllocation \in {Num(10), Num(60)},
        primaryMetric \in Metrics,
        affectedPages \in {NoList, List(<<"home">>), List(<<"home", "home">>)},
        targetingRules \in {NoList, List(<<"US", "mobile">>)}}

SecondExperiments ==
    {Experiment("B", audienceSize, trafficAllocation, primaryMetric, affectedPages, targetingRules) :
        audienceSize \in {Num(1000), Num(4000)},
        trafficAllocation \in {Num(5), Num(30), Num(60)},
        primaryMetric \in {"", "conversion"},
        affectedPages \in {NoList, List(<<"home", "cart">>), List(<<"cart">>)},
        targetingRules \in RuleLists}

ThirdExperiments ==
    {Experiment("C", Num(2000), trafficAllocation, primaryMetric, affectedPages, NoList) :
        trafficAllocation \in {Num(10), Num(50)},
        primaryMetric \in {"", "revenue"},
        affectedPages \in {NoList, List(<<"cart">>)}}

ExperimentsTexts ==
    {JMalformed, JOther("object"), JArray(<<>>)}
        \cup {JArray(<<e>>) : e \in SingleExperiments}
        \cup {JArray(<<e1, e2>>) : e1 \in FirstExperiments, e2 \in SecondExperiments}
        \cup {JArray(<<e1, e2, e3>>) :
                 e1 \in {e \in FirstExperiments : e.trafficAllocation = Num(10)},
                 e2 \in {e \in SecondExperiments : e.audienceSize = Num(1000) /\ ~e.targetingRules.given},
                 e3 \in ThirdExperiments}

OverlapRequests ==
    [tool : {OverlapTool},
     experiments : ExperimentsTexts,
     totalAudienceSize : {Undefined, Num(0), Num(1200)},
     overlapTolerance : {Undefined, Num(0), Num(5), Num(101)}]

InitOverlap ==
    /\ pc = "call"
    /\ args \in OverlapRequests
    /\ ret = NoRet
    /\ prev = NoCall
    /\ db = NoDb
    /\ sent = <<>>

NextOverlap == ExperimentOverlapChecker

SpecOverlap == InitOverlap /\ [][NextOverlap]_vars

\* the checker has returned an analysis
Checked == pc = "done" /\ args.tool = OverlapTool /\ ret.ok

\* canRunConcurrently is true exactly when riskLevel is "Low" or "Medium"
ConcurrentIffLowOrMedium ==
    Checked =>
        (ret.summary.canRunConcurrently <=> ret.summary.riskLevel \in {"Low", "Medium"})

\* two experiments of the request have the same primary metric, or a page
\* that both affect
SharedMetricOrPage ==
    \E i, j \in 1..Len(args.experiments.elems) :
        LET exp1 == args.experiments.elems[i]
            exp2 == args.experiments.elems[j]
        IN  /\ i < j
            /\ \/ exp1.primaryMetric # "" /\ exp1.primaryMetric = exp2.primaryMetric
               \/ \E p \in 1..Len(exp1.affectedPages.v), q \in 1..Len(exp2.affectedPages.v) :
                      exp1.affectedPages.v[p] = exp2.affectedPages.v[q]

\* a Critical or Error conflict, two experiments that share a primary metric
\* or a page, or a pair of High risk: canRunConcurrently is false
NotConcurrentOnConflict ==
    (Checked
        /\ \/ \E c \in 1..Len(ret.conflicts) : ret.conflicts[c].severity \in {"Critical", "Error"}
           \/ SharedMetricOrPage
           \/ \E p \in 1..Len(ret.pairwiseAnalysis) : ret.pairwiseAnalysis[p].conflictRisk = "High") =>
        ~ret.summary.canRunConcurrently

\* C28: in the result of experimentOverlapChecker canRunConcurrently is true
\* exactly when riskLevel is "Low" or "Medium"; it is false whenever some
\* conflict has severity "Critical" or "Error" (two experiments sharing a
\* primaryMetric or an affected page) or some pair has conflictRisk "High";
\* a single valid experiment always yields riskLevel "Low" with
\* canRunConcurrently true.
C28_ConcurrencyFollowsRisk ==
    /\ ConcurrentIffLowOrMedium
    /\ NotConcurrentOnConflict
    /\ (Checked /\ Len(args.experiments.elems) = 1) =>
           (ret.summary.riskLevel = "Low" /\ ret.summary.canRunConcurrently)

\* no experiment of the request lists a page twice
NoPageListedTwice ==
    \A i \in 1..Len(args.experiments.elems) :
        LET pages == args.experiments.elems[i].affectedPages.v
        IN  \A p, q \in 1..Len(pages) : pages[p] = pages[q] => p = q

\* C28 for experiments that list no page twice
C28_HoldsWithoutRepeatedPages ==
    /\ ConcurrentIffLowOrMedium
    /\ NotConcurrentOnConflict
    /\ (Checked /\ Len(args.experiments.elems) = 1 /\ NoPageListedTwice) =>
           (ret.summary.riskLevel = "Low" /\ ret.summary.canRunConcurrently)

\* a single valid experiment that lists a page twice is of High risk
C28_SingleExperimentOfHighRisk ==
    /\ Checked
    /\ Len(args.experiments.elems) = 1
    /\ ret.summary.riskLevel = "High"
    /\ ~ret.summary.canRunConcurrently
    /\ \E c \in 1..Len(ret.conflicts) :
           ret.conflicts[c].type = "page" /\ ret.conflicts[c].affectedExperiments = <<"A", "A">>

====
